---------------------------- MODULE Spec2Model ----------------------------
(***************************************************************************)
(* A model of the cryptobox suite: secretbox (AES-128-CTR + HMAC-SHA-256), *)
(* strongbox (AES-256-CTR + HMAC-SHA-384), box (P-256 + secretbox) and     *)
(* stoutbox (P-521 + strongbox, typed and framed, with shared boxes).      *)
(*                                                                         *)
(* Byte strings are sequences of 0..255 with the lengths of the source.    *)
(* A nil slice is the value NIL.  The primitives of the Go standard        *)
(* library (AES-CTR, SHA-2, HMAC, the NIST curves, ECDSA) are modelled by  *)
(* small stand-ins that keep their algebra: CTR is an XOR with a key- and  *)
(* IV-dependent stream, a digest is a polynomial checksum expanded to the  *)
(* digest size, the curve is a cyclic group of prime order GroupOrder      *)
(* whose points are written k for k.G, and ECDSA is computed by its own    *)
(* equations in that group.  The random source is the nondeterminism of    *)
(* the actions.                                                            *)
(***************************************************************************)
EXTENDS Integers, Sequences, FiniteSets, TLC

VARIABLES
    pc,        \* "idle" | "sealed" | "scanning" | "opened"
    keyring,   \* private scalars of the key pairs GenerateKey has returned
    call,      \* the sealing call: package, operation and its inputs
    box,       \* the box the sealing call returned (NIL when it failed)
    sealOk,    \* the ok result of the sealing call
    tamper,    \* the bit flips applied to box since it was sealed
    opening,   \* the opening call: operation and its inputs
    result,    \* what the opening call returned: [message, ok]
    globals,   \* the package-level variables: PRNG, curve, Overhead, SignedOverhead
    reader,    \* the number of reads the random source has served
    threads    \* each thread's invocation: position, inputs, draws, result

vars == <<pc, keyring, call, box, sealOk, tamper, opening, result, globals, reader, threads>>

-----------------------------------------------------------------------------
(* Byte strings *)

NIL == <<-1>>

len(s) == IF s = NIL THEN 0 ELSE Len(s)

\* s[lo:hi] of Go: the bytes at 0-based offsets lo .. hi-1.
Slice(s, lo, hi) == IF s = NIL \/ hi <= lo THEN <<>> ELSE SubSeq(s, lo + 1, hi)

\* n bytes of value v.
Fill(n, v) == [i \in 1..n |-> v]

\* append(a, b...) and copy into a fresh buffer: a nil operand is empty.
Cat(a, b) == (IF a = NIL THEN <<>> ELSE a) \o (IF b = NIL THEN <<>> ELSE b)

\* v := ...; the statements that follow use v.
With(v, F(_)) == F(v)

RECURSIVE XorBits(_, _, _)
XorBits(a, b, k) ==
    IF k = 0 THEN 0
    ELSE ((a + b) % 2) + 2 * XorBits(a \div 2, b \div 2, k - 1)

\* a ^ b on bytes.
Xor(a, b) == XorBits(a, b, 8)

-----------------------------------------------------------------------------
(* Stand-ins for the digests of the standard library *)

DigestModulus == 32749
DigestBase == 263

RECURSIVE PowMod(_, _, _)
PowMod(a, e, m) ==
    IF e = 0 THEN 1
    ELSE LET h == PowMod(a, e \div 2, m)
         IN  IF e % 2 = 0 THEN (h * h) % m ELSE (((h * h) % m) * a) % m

RECURSIVE Poly(_, _, _)
Poly(s, lo, hi) ==
    IF lo > hi THEN 0
    ELSE IF lo = hi THEN s[lo] + 1
    ELSE LET mid == (lo + hi) \div 2
         IN  (Poly(s, lo, mid) * PowMod(DigestBase, hi - mid, DigestModulus)
                + Poly(s, mid + 1, hi)) % DigestModulus

\* The checksum of the bytes of s, continued from the state seed.
Digest(seed, s) ==
    (seed * PowMod(DigestBase, Len(s), DigestModulus) + Poly(s, 1, Len(s)))
        % DigestModulus

\* n digest bytes, every one of them depending on both halves of d.
Expand(d, n) ==
    [j \in 1..n |-> ((d % 256) * (2 * j + 1) + (d \div 256) * (2 * j + 3) + j) % 256]

Sha256Size == 32
Sha384Size == 48
AesBlockSize == 16

Sha256Seed == 11
Sha384Seed == 13
AesSeed == 17

sha256(in) == Expand(Digest(Sha256Seed, in), Sha256Size)
sha384(in) == Expand(Digest(Sha384Seed, in), Sha384Size)

\* hmac.New(h, key); Write(in); Sum(nil)
hmacSha256(key, in) == Expand(Digest(Digest(Sha256Seed + 1, key), in), Sha256Size)
hmacSha384(key, in) == Expand(Digest(Digest(Sha384Seed + 1, key), in), Sha384Size)

\* cipher.NewCTR(aes.NewCipher(key), iv).XORKeyStream(out, in): the stream
\* depends on the key and the IV, and the same call inverts itself.
KeyStream(kd, i) == ((kd % 256) * (2 * i + 1) + (kd \div 256) + i * i) % 256
XORKeyStream(key, iv, in) ==
    LET kd == Digest(AesSeed, key \o iv)
    IN  [i \in 1..Len(in) |-> Xor(in[i], KeyStream(kd, i))]

-----------------------------------------------------------------------------
(* secretbox: AES-128-CTR with HMAC-SHA-256 *)

secretbox_cryptKeySize == 16
secretbox_tagKeySize == 32
secretbox_KeySize == secretbox_cryptKeySize + secretbox_tagKeySize
secretbox_Overhead == AesBlockSize + Sha256Size

secretbox_KeyIsSuitable(key) == len(key) = secretbox_KeySize

\* rnd is what io.ReadFull(PRNG, key) delivered: KeySize bytes, or NIL.
secretbox_GenerateKey(rnd) ==
    IF rnd = NIL THEN [key |-> Fill(secretbox_KeySize, 0), ok |-> FALSE]
    ELSE [key |-> rnd, ok |-> TRUE]

\* rnd is what io.ReadFull(PRNG, n) delivered: 16 bytes, or NIL on an error.
secretbox_encrypt(key, in, rnd) ==
    IF rnd = NIL THEN [out |-> NIL, err |-> TRUE]
    ELSE [out |-> Cat(rnd, XORKeyStream(key, rnd, IF in = NIL THEN <<>> ELSE in)),
          err |-> FALSE]

\* A computeTag that authenticates the ciphertext without the IV before it.
secretbox_computeTagNoIV(key, in) == hmacSha256(key, Slice(in, AesBlockSize, len(in)))

secretbox_computeTag(key, in) == hmacSha256(key, in)

\* A checkTag that compares the lengths of the two tags, not the tags.
secretbox_checkTagLength(key, in) ==
    LET ctlen == len(in) - Sha256Size
    IN  len(Slice(in, ctlen, len(in))) = len(secretbox_computeTag(key, Slice(in, 0, ctlen)))

secretbox_checkTag(key, in) ==
    LET ctlen == len(in) - Sha256Size
        tag == Slice(in, ctlen, len(in))
        ct == Slice(in, 0, ctlen)
    IN  tag = secretbox_computeTag(key, ct)

secretbox_decrypt(key, in) ==
    IF len(in) < AesBlockSize THEN [out |-> NIL, err |-> TRUE]
    ELSE [out |-> XORKeyStream(key, Slice(in, 0, AesBlockSize),
                               Slice(in, AesBlockSize, len(in))),
          err |-> FALSE]

secretbox_Seal(message, key, rnd) ==
    IF ~secretbox_KeyIsSuitable(key) THEN [box |-> NIL, ok |-> FALSE]
    ELSE With(secretbox_encrypt(Slice(key, 0, secretbox_cryptKeySize), message, rnd),
              LAMBDA e :
         IF e.err THEN [box |-> NIL, ok |-> FALSE]
         ELSE [box |-> Cat(e.out,
                           secretbox_computeTag(
                               Slice(key, secretbox_cryptKeySize, len(key)), e.out)),
               ok |-> TRUE])

secretbox_Open(b, key) ==
    IF ~secretbox_KeyIsSuitable(key) THEN [message |-> NIL, ok |-> FALSE]
    ELSE IF b = NIL THEN [message |-> NIL, ok |-> FALSE]
    ELSE IF len(b) <= secretbox_Overhead THEN [message |-> NIL, ok |-> FALSE]
    ELSE IF ~secretbox_checkTag(Slice(key, secretbox_cryptKeySize, len(key)), b)
         THEN [message |-> NIL, ok |-> FALSE]
    ELSE With(secretbox_decrypt(Slice(key, 0, secretbox_cryptKeySize),
                                Slice(b, 0, len(b) - Sha256Size)),
              LAMBDA d : [message |-> d.out, ok |-> ~d.err])

-----------------------------------------------------------------------------
(* strongbox: AES-256-CTR with HMAC-SHA-384 *)

strongbox_cryptKeySize == 32
strongbox_tagKeySize == 48
strongbox_KeySize == strongbox_cryptKeySize + strongbox_tagKeySize
strongbox_Overhead == AesBlockSize + Sha384Size

strongbox_KeyIsSuitable(key) == len(key) = strongbox_KeySize

\* rnd is what io.ReadFull(PRNG, key) delivered: KeySize bytes, or NIL.
strongbox_GenerateKey(rnd) ==
    IF rnd = NIL THEN [key |-> Fill(strongbox_KeySize, 0), ok |-> FALSE]
    ELSE [key |-> rnd, ok |-> TRUE]

strongbox_encrypt(key, in, rnd) ==
    IF rnd = NIL THEN [out |-> NIL, err |-> TRUE]
    ELSE [out |-> Cat(rnd, XORKeyStream(key, rnd, IF in = NIL THEN <<>> ELSE in)),
          err |-> FALSE]

strongbox_computeTag(key, in) == hmacSha384(key, in)

strongbox_checkTag(key, in) ==
    LET ctlen == len(in) - Sha384Size
        tag == Slice(in, ctlen, len(in))
        ct == Slice(in, 0, ctlen)
    IN  tag = strongbox_computeTag(key, ct)

strongbox_decrypt(key, in) ==
    IF len(in) < AesBlockSize THEN [out |-> NIL, err |-> TRUE]
    ELSE [out |-> XORKeyStream(key, Slice(in, 0, AesBlockSize),
                               Slice(in, AesBlockSize, len(in))),
          err |-> FALSE]

strongbox_Seal(message, key, rnd) ==
    IF ~strongbox_KeyIsSuitable(key) THEN [box |-> NIL, ok |-> FALSE]
    ELSE With(strongbox_encrypt(Slice(key, 0, strongbox_cryptKeySize), message, rnd),
              LAMBDA e :
         IF e.err THEN [box |-> NIL, ok |-> FALSE]
         ELSE [box |-> Cat(e.out,
                           strongbox_computeTag(
                               Slice(key, strongbox_cryptKeySize, len(key)), e.out)),
               ok |-> TRUE])

strongbox_Open(b, key) ==
    IF ~strongbox_KeyIsSuitable(key) THEN [message |-> NIL, ok |-> FALSE]
    ELSE IF len(b) <= strongbox_Overhead THEN [message |-> NIL, ok |-> FALSE]
    ELSE IF ~strongbox_checkTag(Slice(key, strongbox_cryptKeySize, len(key)), b)
         THEN [message |-> NIL, ok |-> FALSE]
    ELSE With(strongbox_decrypt(Slice(key, 0, strongbox_cryptKeySize),
                                Slice(b, 0, len(b) - Sha384Size)),
              LAMBDA d : [message |-> d.out, ok |-> ~d.err])

-----------------------------------------------------------------------------
(* Wire framing (stoutbox/util.go) *)

MaxInt == 2147483647

\* binary.Write(buf, binary.BigEndian, uint32(n))
U32BE(n) ==
    <<(n \div 16777216) % 256, (n \div 65536) % 256, (n \div 256) % 256, n % 256>>

\* The uint32 that binary.Read decodes from four bytes.  Values of 2^31 and
\* above are reported as MaxInt: they are only ever compared with lengths
\* far below it.
U32Value(b) ==
    IF b[1] >= 128 THEN MaxInt
    ELSE b[1] * 16777216 + b[2] * 65536 + b[3] * 256 + b[4]

\* A bw is the bytes written so far (binary.Write to a bytes.Buffer never
\* fails, so err stays nil).
newbw(init) == IF init = NIL THEN <<>> ELSE init

\* A Write that leaves out the length prefix.
bw_WriteUnframed(b, data) == b \o (IF data = NIL THEN <<>> ELSE data)

bw_Write(b, data) == b \o U32BE(len(data)) \o (IF data = NIL THEN <<>> ELSE data)

u32Len == 4

\* A WriteUint32 that writes n on eight bytes.
bw_WriteUint64(b, n) == b \o U32BE(0) \o U32BE(n)

bw_WriteUint32(b, n) == b \o U32BE(u32Len) \o U32BE(n)

\* bytes.Buffer.Bytes() of a buffer nothing was written to is nil.
bw_Bytes(b) == IF Len(b) = 0 THEN NIL ELSE b

\* A br is the unread bytes and the sticky error.
newbr(data) == [buf |-> IF data = NIL THEN <<>> ELSE data, err |-> FALSE]

\* A Next that returns the bytes that are left when the length is beyond them.
br_NextShort(r) ==
    IF r.err THEN [data |-> NIL, r |-> r]
    ELSE IF Len(r.buf) < 4 THEN [data |-> NIL, r |-> [buf |-> <<>>, err |-> TRUE]]
    ELSE LET dlen == U32Value(r.buf)
             rest == SubSeq(r.buf, 5, Len(r.buf))
         IN  IF dlen > Len(rest) THEN [data |-> rest, r |-> [buf |-> <<>>, err |-> FALSE]]
             ELSE [data |-> SubSeq(rest, 1, dlen),
                   r |-> [buf |-> SubSeq(rest, dlen + 1, Len(rest)), err |-> FALSE]]

\* Next returns the frame read (NIL on failure) and the reader after it.  A
\* short length field sets err; a length beyond the unread bytes returns nil
\* with the four length bytes consumed and err still nil.
br_Next(r) ==
    IF r.err THEN [data |-> NIL, r |-> r]
    ELSE IF Len(r.buf) < 4 THEN [data |-> NIL, r |-> [buf |-> <<>>, err |-> TRUE]]
    ELSE LET dlen == U32Value(r.buf)
             rest == SubSeq(r.buf, 5, Len(r.buf))
         IN  IF dlen > Len(rest) THEN [data |-> NIL, r |-> [buf |-> rest, err |-> FALSE]]
             ELSE [data |-> SubSeq(rest, 1, dlen),
                   r |-> [buf |-> SubSeq(rest, dlen + 1, Len(rest)), err |-> FALSE]]

br_NextU32(r) ==
    IF r.err THEN [n |-> 0, ok |-> FALSE, r |-> r]
    ELSE IF Len(r.buf) < 4 THEN [n |-> 0, ok |-> FALSE, r |-> [buf |-> <<>>, err |-> TRUE]]
    ELSE LET n == U32Value(r.buf)
             rest == SubSeq(r.buf, 5, Len(r.buf))
         IN  IF n > Len(rest) THEN [n |-> 0, ok |-> FALSE, r |-> [buf |-> rest, err |-> FALSE]]
             ELSE IF Len(rest) < 4
                  THEN [n |-> U32Value(rest \o <<0, 0, 0, 0>>), ok |-> FALSE,
                        r |-> [buf |-> <<>>, err |-> TRUE]]
             ELSE [n |-> U32Value(rest), ok |-> TRUE,
                   r |-> [buf |-> SubSeq(rest, 5, Len(rest)), err |-> FALSE]]

\* zeroPad(in, outlen): in right-aligned in outlen bytes (its first outlen
\* bytes when it is longer).
zeroPad(in, outlen) ==
    IF len(in) > outlen THEN Slice(in, 0, outlen)
    ELSE IF len(in) = outlen THEN in
    ELSE Cat(Fill(outlen - len(in), 0), in)

-----------------------------------------------------------------------------
(* Stand-ins for math/big, crypto/elliptic and crypto/ecdsa.                *)
(* The curve is the cyclic group of order GroupOrder; the point k.G is      *)
(* written k (1 .. GroupOrder-1) and NoPoint is a failed decoding.  A       *)
(* number v below SmallInt is the integer v itself; every other v stands    *)
(* for a full-size integer, whose top byte is zero when v is even.          *)

GroupOrder == 241
SmallInt == 8
FillByte == 165
NoPoint == 0
NoInt == -1

\* The big-endian encoding of v on exactly n bytes.
Enc(v, n) ==
    IF v < SmallInt THEN Cat(Fill(n - 1, 0), <<v>>)
    ELSE IF v % 2 = 0 THEN <<0>> \o Fill(n - 2, FillByte) \o <<v>>
    ELSE Fill(n - 1, FillByte) \o <<v>>

RECURSIVE LeadingZeros(_, _)
LeadingZeros(s, i) ==
    IF i > Len(s) \/ s[i] # 0 THEN i - 1 ELSE LeadingZeros(s, i + 1)

Strip(s) == SubSeq(s, LeadingZeros(s, 1) + 1, Len(s))

\* big.Int.Bytes(): the encoding without leading zero bytes.
BigBytes(v, n) == Strip(Enc(v, n))

\* new(big.Int).SetBytes(b) for a curve of n-byte integers: the number the
\* bytes encode, NoInt when they encode none of the model's numbers.
SetBytes(b, n) ==
    LET s == Strip(IF b = NIL THEN <<>> ELSE b)
    IN  IF s = <<>> THEN 0
        ELSE IF s = BigBytes(s[Len(s)], n) THEN s[Len(s)]
        ELSE NoInt

Inverse(a) == PowMod(a % GroupOrder, GroupOrder - 2, GroupOrder)

\* The X coordinate of k.G, shared by k.G and -k.G, and its Y coordinate.
XVal(k) == IF 2 * k < GroupOrder THEN k ELSE GroupOrder - k
XCoord(k) == SmallInt + XVal(k)
YCoord(k) == SmallInt + k

CoordLen(pubSize) == (pubSize - 1) \div 2

\* elliptic.Marshal(curve, x, y): 0x04, X, Y.
Marshal(k, pubSize) ==
    <<4>> \o Enc(XCoord(k), CoordLen(pubSize)) \o Enc(YCoord(k), CoordLen(pubSize))

\* elliptic.Unmarshal(curve, data): the point, or NoPoint when data has the
\* wrong length or form or is not on the curve.
Unmarshal(data, pubSize) ==
    IF len(data) # pubSize THEN NoPoint
    ELSE IF data[1] # 4 THEN NoPoint
    ELSE LET k == data[pubSize] - SmallInt
         IN  IF k \in 1..(GroupOrder - 1) /\ data = Marshal(k, pubSize) THEN k
             ELSE NoPoint

\* curve.ScalarMult(x, y, key): the scalar is the big-endian value of key.
ScalarMult(k, key, privSize) ==
    LET d == SetBytes(key, privSize)
    IN  IF d = NoInt THEN NoPoint ELSE (k * d) % GroupOrder

\* elliptic.GenerateKey(curve, PRNG): rnd is the scalar drawn, 0 when the
\* random source failed.
elliptic_GenerateKey(rnd, privSize) ==
    [priv |-> Enc(rnd, privSize), point |-> rnd, err |-> rnd = 0]

\* The integer ECDSA makes of a digest.
HashToInt(hash) == Poly(hash, 1, Len(hash)) % GroupOrder

\* ecdsa.Sign(PRNG, skey, hash) with the nonce k drawn from the random
\* source: r = X(k.G) mod N, s = (e + r.d) / k mod N, drawn again (here: the
\* next nonce) when s = 0; err when k = 0 (the source failed).
SignS(k, d, hash) ==
    (Inverse(k) * ((HashToInt(hash) + XVal(k) * d) % GroupOrder)) % GroupOrder

ecdsa_Sign(k, d, hash) ==
    LET k2 == IF SignS(k, d, hash) = 0 THEN k + 1 ELSE k
    IN  [r |-> XVal(k2), s |-> SignS(k2, d, hash), err |-> k = 0]

\* ecdsa.Verify(pub, hash, r, s)
ecdsa_Verify(pub, hash, r, s) ==
    IF ~(r \in 1..(GroupOrder - 1) /\ s \in 1..(GroupOrder - 1)) THEN FALSE
    ELSE LET w == Inverse(s)
             u1 == (HashToInt(hash) * w) % GroupOrder
             u2 == (r * w) % GroupOrder
             pt == (u1 + u2 * pub) % GroupOrder
         IN  pt # 0 /\ XVal(pt) = r

-----------------------------------------------------------------------------
(* box: P-256 with secretbox (the 20-year profile) *)

box_publicKeySize == 65
box_privateKeySize == 32
box_sigSize == 64
box_SharedKeySize == 48
box_ecdhSharedSize == 32

box_Overhead == box_publicKeySize + secretbox_Overhead
box_SignedOverhead == box_publicKeySize + secretbox_Overhead + box_sigSize

box_KeyIsSuitable(key, pub) ==
    IF key = NIL /\ pub = NIL THEN FALSE
    ELSE IF key # NIL /\ len(key) # box_privateKeySize THEN FALSE
    ELSE IF pub # NIL /\ len(pub) # box_publicKeySize THEN FALSE
    ELSE TRUE

box_ecdh(key, peer) ==
    With(Unmarshal(peer, box_publicKeySize), LAMBDA p :
    IF p = NoPoint THEN [key |-> NIL, ok |-> FALSE]
    ELSE With(ScalarMult(p, key, box_privateKeySize), LAMBDA x :
    IF x = NoPoint THEN [key |-> NIL, ok |-> FALSE]
    ELSE With(zeroPad(BigBytes(XCoord(x), CoordLen(box_publicKeySize)), box_ecdhSharedSize),
              LAMBDA xb :
         [key |-> Cat(Slice(xb, 0, 16), sha256(Slice(xb, 16, len(xb)))), ok |-> TRUE])))

\* rnd is the scalar elliptic.GenerateKey drew (0: the random source failed).
box_GenerateKey(rnd) ==
    With(elliptic_GenerateKey(rnd, box_privateKeySize), LAMBDA g :
    IF g.err THEN [key |-> NIL, pub |-> NIL, ok |-> FALSE]
    ELSE With(Marshal(g.point, box_publicKeySize), LAMBDA peer :
    IF len(g.priv) # box_privateKeySize \/ len(peer) # box_publicKeySize
    THEN [key |-> NIL, pub |-> NIL, ok |-> FALSE]
    ELSE [key |-> g.priv, pub |-> peer, ok |-> TRUE]))

\* rnd.eph is the ephemeral scalar drawn, rnd.iv the nonce drawn.
box_Seal(message, peer, rnd) ==
    IF ~box_KeyIsSuitable(NIL, peer) THEN [box |-> NIL, ok |-> FALSE]
    ELSE With(box_GenerateKey(rnd.eph), LAMBDA eph :
    IF ~eph.ok THEN [box |-> NIL, ok |-> FALSE]
    ELSE With(box_ecdh(eph.key, peer), LAMBDA skey :
    IF ~skey.ok THEN [box |-> NIL, ok |-> FALSE]
    ELSE With(secretbox_Seal(message, skey.key, rnd.iv), LAMBDA sbox :
    IF ~sbox.ok THEN [box |-> NIL, ok |-> FALSE]
    ELSE [box |-> Cat(eph.pub, sbox.box), ok |-> TRUE])))

box_Open(b, key) ==
    IF ~box_KeyIsSuitable(key, NIL) THEN [message |-> NIL, ok |-> FALSE]
    ELSE IF len(b) < box_publicKeySize + secretbox_Overhead
         THEN [message |-> NIL, ok |-> FALSE]
    ELSE With(box_ecdh(key, Slice(b, 0, box_publicKeySize)), LAMBDA shared :
    IF ~shared.ok THEN [message |-> NIL, ok |-> FALSE]
    ELSE secretbox_Open(Slice(b, box_publicKeySize, len(b)), shared.key))

\* The decoded key pair of ecdsa_private and the decoded point of ecdsa_public.
box_ecdsa_private(key, pub) ==
    With(Unmarshal(pub, box_publicKeySize), LAMBDA p :
    IF p = NoPoint THEN [D |-> NoInt, point |-> NoPoint, ok |-> FALSE]
    ELSE [D |-> SetBytes(key, box_privateKeySize), point |-> p, ok |-> TRUE])

box_ecdsa_public(peer) ==
    With(Unmarshal(peer, box_publicKeySize), LAMBDA p : [point |-> p, ok |-> p # NoPoint])

box_marshalECDSASignature(r, s) ==
    Cat(zeroPad(BigBytes(r, box_privateKeySize), 32),
        zeroPad(BigBytes(s, box_privateKeySize), 32))

box_unmarshalECDSASignature(sig) ==
    IF len(sig) # box_sigSize THEN [r |-> NoInt, s |-> NoInt, nil |-> TRUE]
    ELSE [r |-> SetBytes(Slice(sig, 0, 32), box_privateKeySize),
          s |-> SetBytes(Slice(sig, 32, len(sig)), box_privateKeySize),
          nil |-> FALSE]

\* k is the nonce ecdsa.Sign drew (0: the random source failed).  ok is set
\* by ecdsa_private and is not cleared when ecdsa.Sign fails.
box_sign(message, key, pub, k) ==
    With(box_ecdsa_private(key, pub), LAMBDA skey :
    IF ~skey.ok THEN [smessage |-> NIL, ok |-> FALSE]
    ELSE With(ecdsa_Sign(k, skey.D, sha256(IF message = NIL THEN <<>> ELSE message)),
              LAMBDA sg :
    IF sg.err THEN [smessage |-> NIL, ok |-> TRUE]
    ELSE [smessage |-> Cat(message, box_marshalECDSASignature(sg.r, sg.s)),
          ok |-> TRUE]))

box_verify(smessage, peer) ==
    IF len(smessage) <= box_sigSize THEN FALSE
    ELSE LET sigPos == len(smessage) - box_sigSize
         IN  With(box_ecdsa_public(peer), LAMBDA pub :
             IF ~pub.ok THEN FALSE
             ELSE With(box_unmarshalECDSASignature(Slice(smessage, sigPos, len(smessage))),
                       LAMBDA rs :
             IF rs.nil THEN FALSE
             ELSE ecdsa_Verify(pub.point, sha256(Slice(smessage, 0, sigPos)), rs.r, rs.s)))

\* rnd.k is the signing nonce; rnd.eph and rnd.iv are Seal's draws.
box_SignAndSeal(message, key, public, peer, rnd) ==
    With(box_sign(message, key, public, rnd.k), LAMBDA sm :
    IF ~sm.ok THEN [box |-> NIL, ok |-> FALSE]
    ELSE box_Seal(sm.smessage, peer, rnd))

\* smessage[:len(smessage)-sigSize] panics on a payload shorter than sigSize.
box_OpenAndVerify(b, key, peer) ==
    With(box_Open(b, key), LAMBDA sm :
    IF ~sm.ok THEN [message |-> NIL, ok |-> FALSE, panic |-> FALSE]
    ELSE IF len(sm.message) < box_sigSize
         THEN [message |-> NIL, ok |-> FALSE, panic |-> TRUE]
    ELSE [message |-> Slice(sm.message, 0, len(sm.message) - box_sigSize),
          ok |-> box_verify(sm.message, peer),
          panic |-> FALSE])

-----------------------------------------------------------------------------
(* stoutbox: P-521 with strongbox (the 50-year profile), typed and framed *)

stoutbox_publicKeySize == 133
stoutbox_privateKeySize == 66
stoutbox_sigSize == 140

BoxUnsigned == 1
BoxSigned == 2
BoxShared == 11
BoxSharedSigned == 12
peerList == 21

stoutbox_SharedKeySize == 80
stoutbox_ecdhSharedSize == 80

stoutbox_Overhead == stoutbox_publicKeySize + strongbox_Overhead + 9
stoutbox_SignedOverhead == stoutbox_publicKeySize + strongbox_Overhead + stoutbox_sigSize

Failed == [message |-> NIL, ok |-> FALSE, panic |-> FALSE]
Panicked == [message |-> NIL, ok |-> FALSE, panic |-> TRUE]

\* A KeyIsSuitable that takes an empty key for a key that was not supplied.
stoutbox_KeyIsSuitableEmpty(key, pub) ==
    IF len(key) = 0 /\ len(pub) = 0 THEN FALSE
    ELSE IF len(key) # 0 /\ len(key) # stoutbox_privateKeySize THEN FALSE
    ELSE IF len(pub) # 0 /\ len(pub) # stoutbox_publicKeySize THEN FALSE
    ELSE TRUE

stoutbox_KeyIsSuitable(key, pub) ==
    IF key = NIL /\ pub = NIL THEN FALSE
    ELSE IF key # NIL /\ len(key) # stoutbox_privateKeySize THEN FALSE
    ELSE IF pub # NIL /\ len(pub) # stoutbox_publicKeySize THEN FALSE
    ELSE TRUE

\* xb is x.Bytes(), without leading zero bytes, and is split at 32 as it is.
stoutbox_ecdh(key, peer) ==
    With(Unmarshal(peer, stoutbox_publicKeySize), LAMBDA p :
    IF p = NoPoint THEN [key |-> NIL, ok |-> FALSE]
    ELSE With(ScalarMult(p, key, stoutbox_privateKeySize), LAMBDA x :
    IF x = NoPoint THEN [key |-> NIL, ok |-> FALSE]
    ELSE With(BigBytes(XCoord(x), CoordLen(stoutbox_publicKeySize)), LAMBDA xb :
         [key |-> Cat(Slice(xb, 0, 32), sha384(Slice(xb, 32, len(xb)))), ok |-> TRUE])))

stoutbox_SharedKey(key, peer) == stoutbox_ecdh(key, peer)

stoutbox_GenerateKey(rnd) ==
    With(elliptic_GenerateKey(rnd, stoutbox_privateKeySize), LAMBDA g :
    IF g.err THEN [key |-> NIL, pub |-> NIL, ok |-> FALSE]
    ELSE With(Marshal(g.point, stoutbox_publicKeySize), LAMBDA peer :
    IF len(g.priv) # stoutbox_privateKeySize \/ len(peer) # stoutbox_publicKeySize
    THEN [key |-> NIL, pub |-> NIL, ok |-> FALSE]
    ELSE [key |-> g.priv, pub |-> peer, ok |-> TRUE]))

\* The bytes of the packer sealBox returns, NIL for a nil packer.
stoutbox_sealBox(message, peer, boxtype, rnd) ==
    IF message = NIL THEN NIL
    ELSE IF ~stoutbox_KeyIsSuitable(NIL, peer) THEN NIL
    ELSE With(stoutbox_GenerateKey(rnd.eph), LAMBDA eph :
    IF ~eph.ok THEN NIL
    ELSE With(stoutbox_ecdh(eph.key, peer), LAMBDA skey :
    IF ~skey.ok THEN NIL
    ELSE With(strongbox_Seal(message, skey.key, rnd.iv), LAMBDA sbox :
    IF ~sbox.ok THEN NIL
    ELSE bw_Write(bw_Write(newbw(<<boxtype>>), eph.pub), sbox.box))))

stoutbox_Seal(message, peer, rnd) ==
    With(stoutbox_sealBox(message, peer, BoxUnsigned, rnd), LAMBDA packer :
    IF packer = NIL THEN [box |-> NIL, ok |-> FALSE]
    ELSE IF bw_Bytes(packer) = NIL THEN [box |-> NIL, ok |-> FALSE]
    ELSE [box |-> bw_Bytes(packer), ok |-> TRUE])

\* box[0] panics on a box that is empty but not nil.
stoutbox_openBox(b, key) ==
    IF b = NIL THEN [btype |-> 0] @@ Failed
    ELSE IF ~stoutbox_KeyIsSuitable(key, NIL) THEN [btype |-> 0] @@ Failed
    ELSE IF len(b) = 0 THEN [btype |-> 0] @@ Panicked
    ELSE With(br_Next(newbr(Slice(b, 1, len(b)))), LAMBDA eph_pub :
         With(br_Next(eph_pub.r), LAMBDA sbox :
         With(stoutbox_ecdh(key, eph_pub.data), LAMBDA shared :
         IF ~shared.ok THEN [btype |-> 0] @@ Failed
         ELSE With(strongbox_Open(sbox.data, shared.key), LAMBDA m :
         IF ~m.ok THEN [btype |-> 0] @@ Failed
         ELSE [btype |-> b[1], message |-> m.message, ok |-> TRUE, panic |-> FALSE]))))

\* An Open that does not look at the type byte.
stoutbox_OpenUntyped(b, key) ==
    With(stoutbox_openBox(b, key), LAMBDA o :
    IF o.panic THEN Panicked
    ELSE IF ~o.ok THEN Failed
    ELSE IF o.message = NIL THEN Failed
    ELSE [message |-> o.message, ok |-> TRUE, panic |-> FALSE])

stoutbox_Open(b, key) ==
    With(stoutbox_openBox(b, key), LAMBDA o :
    IF o.panic THEN Panicked
    ELSE IF ~o.ok THEN Failed
    ELSE IF o.message = NIL THEN Failed
    ELSE IF o.btype # BoxUnsigned THEN Failed
    ELSE [message |-> o.message, ok |-> TRUE, panic |-> FALSE])

stoutbox_ecdsa_private(key, pub) ==
    With(Unmarshal(pub, stoutbox_publicKeySize), LAMBDA p :
    IF p = NoPoint THEN [D |-> NoInt, point |-> NoPoint, ok |-> FALSE]
    ELSE [D |-> SetBytes(key, stoutbox_privateKeySize), point |-> p, ok |-> TRUE])

\* An ecdsa_public that reads the point without checking that it is on the curve.
stoutbox_ecdsa_publicUnchecked(peer) ==
    IF len(peer) # stoutbox_publicKeySize THEN [point |-> NoPoint, ok |-> FALSE]
    ELSE With(peer[stoutbox_publicKeySize] - SmallInt, LAMBDA k :
         [point |-> k, ok |-> k \in 1..(GroupOrder - 1)])

stoutbox_ecdsa_public(peer) ==
    With(Unmarshal(peer, stoutbox_publicKeySize), LAMBDA p :
         [point |-> p, ok |-> p # NoPoint])

\* r.Bytes() and s.Bytes(), each in a frame: 8 + len(r) + len(s) bytes.
marshalSignature(r, s) ==
    bw_Bytes(bw_Write(bw_Write(newbw(NIL), BigBytes(r, stoutbox_privateKeySize)),
                      BigBytes(s, stoutbox_privateKeySize)))

unmarshalSignature(sig) ==
    With(br_Next(newbr(sig)), LAMBDA n1 :
    With(br_Next(n1.r), LAMBDA n2 :
    IF n1.data # NIL /\ n2.data # NIL
    THEN [r |-> SetBytes(n1.data, stoutbox_privateKeySize),
          s |-> SetBytes(n2.data, stoutbox_privateKeySize), nil |-> FALSE]
    ELSE [r |-> NoInt, s |-> NoInt, nil |-> TRUE]))

\* k is the nonce ecdsa.Sign drew (0: the random source failed).
stoutbox_Sign(message, key, pub, k) ==
    IF message = NIL THEN [signature |-> NIL, ok |-> FALSE]
    ELSE IF ~stoutbox_KeyIsSuitable(key, pub) THEN [signature |-> NIL, ok |-> FALSE]
    ELSE With(stoutbox_ecdsa_private(key, pub), LAMBDA skey :
    IF ~skey.ok THEN [signature |-> NIL, ok |-> FALSE]
    ELSE With(ecdsa_Sign(k, skey.D, sha384(message)), LAMBDA sg :
    IF sg.err THEN [signature |-> NIL, ok |-> FALSE]
    ELSE With(marshalSignature(sg.r, sg.s), LAMBDA signature :
         [signature |-> signature, ok |-> signature # NIL])))

\* A Verify that takes every well-formed signature for a valid one.
stoutbox_VerifyUnchecked(message, signature, signer) ==
    IF message = NIL \/ signature = NIL THEN FALSE
    ELSE IF ~stoutbox_KeyIsSuitable(NIL, signer) THEN FALSE
    ELSE With(unmarshalSignature(signature), LAMBDA rs :
    IF rs.nil THEN FALSE
    ELSE stoutbox_ecdsa_public(signer).ok)

stoutbox_Verify(message, signature, signer) ==
    IF message = NIL \/ signature = NIL THEN FALSE
    ELSE IF ~stoutbox_KeyIsSuitable(NIL, signer) THEN FALSE
    ELSE With(unmarshalSignature(signature), LAMBDA rs :
    IF rs.nil THEN FALSE
    ELSE With(stoutbox_ecdsa_public(signer), LAMBDA pub :
    IF ~pub.ok THEN FALSE
    ELSE ecdsa_Verify(pub.point, sha384(message), rs.r, rs.s)))

\* The signed payload: Frame(message), Frame(sig).
SignedPayload(message, sig) == bw_Bytes(bw_Write(bw_Write(newbw(NIL), message), sig))

stoutbox_SignAndSeal(message, key, public, peer, rnd) ==
    With(stoutbox_Sign(message, key, public, rnd.k), LAMBDA sg :
    IF ~sg.ok \/ sg.signature = NIL THEN [box |-> NIL, ok |-> FALSE]
    ELSE With(SignedPayload(message, sg.signature), LAMBDA signedMessage :
    IF signedMessage = NIL THEN [box |-> NIL, ok |-> FALSE]
    ELSE With(stoutbox_sealBox(signedMessage, peer, BoxSigned, rnd), LAMBDA packer :
    IF packer = NIL THEN [box |-> NIL, ok |-> FALSE]
    ELSE IF bw_Bytes(packer) = NIL THEN [box |-> NIL, ok |-> FALSE]
    ELSE [box |-> bw_Bytes(packer), ok |-> TRUE])))

\* The message and the signature are unframed from the opened payload.
VerifyPayload(smessage, signer) ==
    With(br_Next(newbr(smessage)), LAMBDA message :
    IF message.data = NIL THEN Failed
    ELSE With(br_Next(message.r), LAMBDA sig :
    IF sig.data = NIL THEN Failed
    ELSE IF ~stoutbox_Verify(message.data, sig.data, signer) THEN Failed
    ELSE [message |-> message.data, ok |-> TRUE, panic |-> FALSE]))

stoutbox_OpenAndVerify(b, key, peer) ==
    With(stoutbox_openBox(b, key), LAMBDA o :
    IF o.panic THEN Panicked
    ELSE IF ~o.ok \/ o.message = NIL THEN Failed
    ELSE IF o.btype # BoxSigned THEN Failed
    ELSE VerifyPayload(o.message, peer))

\* A BoxIsSigned that knows the single-recipient signed box only.
stoutbox_BoxIsSignedSingle(b) ==
    IF b = NIL THEN [signed |-> FALSE, panic |-> FALSE]
    ELSE IF len(b) = 0 THEN [signed |-> FALSE, panic |-> TRUE]
    ELSE [signed |-> b[1] = BoxSigned, panic |-> FALSE]

stoutbox_BoxIsSigned(b) ==
    IF b = NIL THEN [signed |-> FALSE, panic |-> FALSE]
    ELSE IF len(b) = 0 THEN [signed |-> FALSE, panic |-> TRUE]
    ELSE [signed |-> b[1] = BoxSigned \/ b[1] = BoxSharedSigned, panic |-> FALSE]

\* k is the nonce ecdsa.Sign drew (0: the random source failed).  The digest
\* is of the bytes of peer as they are; the keys are not checked for length.
stoutbox_SignKey(priv, pub, peer, k) ==
    With(stoutbox_ecdsa_private(priv, pub), LAMBDA key :
    IF ~key.ok THEN [sig |-> NIL, ok |-> FALSE]
    ELSE With(ecdsa_Sign(k, key.D, sha384(IF peer = NIL THEN <<>> ELSE peer)), LAMBDA sg :
    IF sg.err THEN [sig |-> NIL, ok |-> FALSE]
    ELSE With(marshalSignature(sg.r, sg.s), LAMBDA sig :
    IF sig = NIL THEN [sig |-> NIL, ok |-> FALSE]
    ELSE [sig |-> sig, ok |-> TRUE])))

stoutbox_VerifySignedKey(pub, sigpub, sig) ==
    With(stoutbox_ecdsa_public(sigpub), LAMBDA ecpub :
    IF ~ecpub.ok THEN FALSE
    ELSE With(unmarshalSignature(sig), LAMBDA rs :
    IF rs.nil THEN FALSE
    ELSE ecdsa_Verify(ecpub.point, sha384(IF pub = NIL THEN <<>> ELSE pub), rs.r, rs.s)))

-----------------------------------------------------------------------------
(* stoutbox: shared boxes *)

\* iv is the nonce strongbox.Seal draws for this peer's key wrap.
boxForPeer(e_priv, peer, key, iv) ==
    With(stoutbox_ecdh(e_priv, peer), LAMBDA shared :
    IF ~shared.ok THEN [box |-> NIL, ok |-> FALSE]
    ELSE strongbox_Seal(key, shared.key, iv))

\* The loop of buildSharedBox over peers[i..]: each peer's key and key wrap
\* are written to packPeers; NIL when a wrap fails.
RECURSIVE PackPeers(_, _, _, _, _, _)
PackPeers(packPeers, peers, i, e_priv, shared, ivs) ==
    IF i > Len(peers) THEN packPeers
    ELSE With(boxForPeer(e_priv, peers[i], shared, ivs[i]), LAMBDA pbox :
         IF ~pbox.ok THEN NIL
         ELSE PackPeers(bw_Write(bw_Write(packPeers, peers[i]), pbox.box),
                        peers, i + 1, e_priv, shared, ivs))

\* rnd.eph: the ephemeral scalar; rnd.key: the payload key strongbox.GenerateKey
\* drew; rnd.ivs: the nonce of each key wrap; rnd.iv: the nonce of the payload.
buildSharedBox(message, peers, btype, rnd) ==
    IF message = NIL THEN NIL
    ELSE IF \E i \in 1..Len(peers) :
                peers[i] = NIL \/ ~stoutbox_KeyIsSuitable(NIL, peers[i]) THEN NIL
    ELSE With(stoutbox_GenerateKey(rnd.eph), LAMBDA eph :
    IF ~eph.ok THEN NIL
    ELSE With(strongbox_GenerateKey(rnd.key), LAMBDA shared :
    IF ~shared.ok THEN NIL
    ELSE With(PackPeers(bw_WriteUint32(newbw(<<peerList>>), Len(peers)),
                        peers, 1, eph.key, shared.key, rnd.ivs), LAMBDA packPeers :
    IF packPeers = NIL THEN NIL
    ELSE IF bw_Bytes(packPeers) = NIL THEN NIL
    ELSE With(strongbox_Seal(message, shared.key, rnd.iv), LAMBDA sbox :
    IF ~sbox.ok THEN NIL
    ELSE bw_Bytes(bw_Write(bw_Write(bw_Write(newbw(<<btype>>), eph.pub),
                                    bw_Bytes(packPeers)), sbox.box))))))

stoutbox_SealShared(message, peers, rnd) ==
    With(buildSharedBox(message, peers, BoxShared, rnd), LAMBDA b :
         [box |-> b, ok |-> b # NIL])

stoutbox_SignAndSealShared(message, peers, sigkey, sigpub, rnd) ==
    With(stoutbox_Sign(message, sigkey, sigpub, rnd.k), LAMBDA sg :
    IF ~sg.ok THEN [box |-> NIL, ok |-> FALSE]
    ELSE With(SignedPayload(message, sg.signature), LAMBDA signedMessage :
    IF signedMessage = NIL THEN [box |-> NIL, ok |-> FALSE]
    ELSE With(buildSharedBox(signedMessage, peers, BoxSharedSigned, rnd), LAMBDA b :
         [box |-> b, ok |-> b # NIL])))

\* A scan that goes on to the next entry when a matching wrap does not open.
RECURSIVE ScanPeersOn(_, _, _, _, _, _)
ScanPeersOn(peerUnpack, i, peerCount, key, public, e_pub) ==
    IF i >= peerCount THEN NIL
    ELSE With(br_Next(peerUnpack), LAMBDA peer :
    IF peer.data = NIL THEN NIL
    ELSE With(br_Next(peer.r), LAMBDA sbox :
    IF sbox.data = NIL THEN NIL
    ELSE IF peer.data # public
         THEN ScanPeersOn(sbox.r, i + 1, peerCount, key, public, e_pub)
    ELSE With(stoutbox_ecdh(key, e_pub), LAMBDA skey :
    IF ~skey.ok THEN NIL
    ELSE With(strongbox_Open(sbox.data, skey.key), LAMBDA shared :
    IF ~shared.ok THEN ScanPeersOn(sbox.r, i + 1, peerCount, key, public, e_pub)
    ELSE shared.message))))

\* The scan of unpackSharedBox from entry i: the payload key recovered from
\* the first entry whose key equals public, NIL when the entries end first,
\* an entry cannot be read, or that entry's wrap does not open.
RECURSIVE ScanPeers(_, _, _, _, _, _)
ScanPeers(peerUnpack, i, peerCount, key, public, e_pub) ==
    IF i >= peerCount THEN NIL
    ELSE With(br_Next(peerUnpack), LAMBDA peer :
    IF peer.data = NIL THEN NIL
    ELSE With(br_Next(peer.r), LAMBDA sbox :
    IF sbox.data = NIL THEN NIL
    ELSE IF peer.data # public
         THEN ScanPeers(sbox.r, i + 1, peerCount, key, public, e_pub)
    ELSE With(stoutbox_ecdh(key, e_pub), LAMBDA skey :
    IF ~skey.ok THEN NIL
    ELSE With(strongbox_Open(sbox.data, skey.key), LAMBDA shared :
    IF ~shared.ok THEN NIL ELSE shared.message))))

\* An unpackSharedBox that reports success, with an empty message, when the
\* payload does not open.
unpackSharedBoxLenient(b, key, public) ==
    IF b = NIL THEN [btype |-> 0] @@ Failed
    ELSE IF ~stoutbox_KeyIsSuitable(key, public) THEN [btype |-> 0] @@ Failed
    ELSE IF len(b) = 0 THEN [btype |-> 0] @@ Panicked
    ELSE With(br_Next(newbr(Slice(b, 1, len(b)))), LAMBDA e_pub :
    IF e_pub.data = NIL THEN [btype |-> 0] @@ Failed
    ELSE With(br_Next(e_pub.r), LAMBDA packedPeers :
    IF packedPeers.data = NIL THEN [btype |-> 0] @@ Failed
    ELSE IF len(packedPeers.data) = 0 THEN [btype |-> 0] @@ Panicked
    ELSE IF packedPeers.data[1] # peerList THEN [btype |-> 0] @@ Failed
    ELSE With(br_NextU32(newbr(Slice(packedPeers.data, 1, len(packedPeers.data)))),
              LAMBDA peerCount :
    IF ~peerCount.ok THEN [btype |-> 0] @@ Failed
    ELSE With(ScanPeers(peerCount.r, 0, peerCount.n, key, public, e_pub.data),
              LAMBDA shared :
    IF shared = NIL THEN [btype |-> 0] @@ Failed
    ELSE With(br_Next(packedPeers.r), LAMBDA sbox :
    IF sbox.data = NIL THEN [btype |-> 0] @@ Failed
    ELSE With(strongbox_Open(sbox.data, shared), LAMBDA m :
         [btype |-> b[1], message |-> IF m.ok THEN m.message ELSE <<>>, ok |-> TRUE,
          panic |-> FALSE]))))))

\* box[0] and packedPeers[0] panic on an empty box and an empty peer frame.
unpackSharedBox(b, key, public) ==
    IF b = NIL THEN [btype |-> 0] @@ Failed
    ELSE IF ~stoutbox_KeyIsSuitable(key, public) THEN [btype |-> 0] @@ Failed
    ELSE IF len(b) = 0 THEN [btype |-> 0] @@ Panicked
    ELSE With(br_Next(newbr(Slice(b, 1, len(b)))), LAMBDA e_pub :
    IF e_pub.data = NIL THEN [btype |-> 0] @@ Failed
    ELSE With(br_Next(e_pub.r), LAMBDA packedPeers :
    IF packedPeers.data = NIL THEN [btype |-> 0] @@ Failed
    ELSE IF len(packedPeers.data) = 0 THEN [btype |-> 0] @@ Panicked
    ELSE IF packedPeers.data[1] # peerList THEN [btype |-> 0] @@ Failed
    ELSE With(br_NextU32(newbr(Slice(packedPeers.data, 1, len(packedPeers.data)))),
              LAMBDA peerCount :
    IF ~peerCount.ok THEN [btype |-> 0] @@ Failed
    ELSE With(ScanPeers(peerCount.r, 0, peerCount.n, key, public, e_pub.data),
              LAMBDA shared :
    IF shared = NIL THEN [btype |-> 0] @@ Failed
    ELSE With(br_Next(packedPeers.r), LAMBDA sbox :
    IF sbox.data = NIL THEN [btype |-> 0] @@ Failed
    ELSE With(strongbox_Open(sbox.data, shared), LAMBDA m :
         [btype |-> b[1], message |-> m.message, ok |-> m.ok, panic |-> FALSE]))))))

\* An OpenShared that does not look at the type byte.
stoutbox_OpenSharedUntyped(b, key, public) ==
    With(unpackSharedBox(b, key, public), LAMBDA o :
    IF o.panic THEN Panicked
    ELSE IF ~o.ok THEN Failed
    ELSE IF o.message = NIL THEN Failed
    ELSE [message |-> o.message, ok |-> TRUE, panic |-> FALSE])

stoutbox_OpenShared(b, key, public) ==
    With(unpackSharedBox(b, key, public), LAMBDA o :
    IF o.panic THEN Panicked
    ELSE IF ~o.ok THEN Failed
    ELSE IF o.message = NIL THEN Failed
    ELSE IF o.btype # BoxShared THEN Failed
    ELSE [message |-> o.message, ok |-> TRUE, panic |-> FALSE])

stoutbox_OpenSharedAndVerify(b, key, public, signer) ==
    With(unpackSharedBox(b, key, public), LAMBDA o :
    IF o.panic THEN Panicked
    ELSE IF ~o.ok THEN Failed
    ELSE IF o.message = NIL THEN Failed
    ELSE IF o.btype # BoxSharedSigned THEN Failed
    ELSE VerifyPayload(o.message, signer))

-----------------------------------------------------------------------------
(* The inputs of the calls *)

MaxMsgLen == 2
MaxKeys == 3
MaxPeers == 2
MaxFlips == 2
MaxTamperLen == 1
MaxTamperKeys == 1
MaxSharedKeys == 2

\* The message of n bytes; a nil message is NIL.
Msg(n) == [i \in 1..n |-> (41 * i) % 256]
Messages == {NIL} \cup {Msg(n) : n \in 0..MaxMsgLen}
TamperMessages == {Msg(n) : n \in 1..MaxTamperLen}

\* The scalar the random source delivers for the i-th key pair.
Scalar(i) == (53 * i) % GroupOrder
KeyScalars == {Scalar(i) : i \in 1..MaxKeys}
TamperScalars == {Scalar(i) : i \in 1..MaxTamperKeys}
SharedScalars == {Scalar(i) : i \in 1..MaxSharedKeys}

\* Ephemeral scalars and signing nonces: the nonce 5 gives a one-byte r,
\* 60 an r with a zero top byte, 71 a full-length r.
EphScalars == {29}
SigNonces == {5, 60, 71}
TamperNonces == {5, 71}
SharedNonces == {71}

\* Symmetric keys: an encryption half of a's and an authentication half of
\* b's, so that two keys can differ in one half only.
SymKey(a, b, cs, ts) == Fill(cs, a) \o Fill(ts, b)
SymFills == {<<1, 3>>, <<2, 3>>, <<1, 4>>, <<2, 4>>}
TamperFills == {<<1, 3>>}

\* Nonces of the symmetric layer, the payload key of a shared box.
Iv(i) == Fill(AesBlockSize, 16 + i)
PayloadKey == SymKey(9, 10, strongbox_cryptKeySize, strongbox_tagKeySize)

FlipMasks == {1, 128}
LowBit == {1}

\* Peer lists of 1 .. MaxPeers generated keys.
RECURSIVE PeerLists(_, _)
PeerLists(ks, n) ==
    IF n = 0 THEN {<<>>}
    ELSE LET shorter == PeerLists(ks, n - 1)
         IN  shorter \cup {Append(p, d) : p \in {q \in shorter : Len(q) = n - 1}, d \in ks}

\* The generated keys, each listed once.
RECURSIVE Ascending(_)
Ascending(ks) ==
    IF ks = {} THEN <<>>
    ELSE LET least == CHOOSE x \in ks : \A y \in ks : x <= y
         IN  <<least>> \o Ascending(ks \ {least})

AnyPeers(ks) == PeerLists(ks, MaxPeers) \ {<<>>}
AllPeers(ks) == {Ascending(ks)} \ {<<>>}

NoRnd == [k |-> 0, eph |-> 0, iv |-> NIL]
NoCall == [pkg |-> "", op |-> "", message |-> NIL, key |-> NIL, peers |-> <<>>,
           signer |-> 0, rnd |-> NoRnd]
NoOpening == [op |-> "", key |-> NIL, pub |-> NIL, scalar |-> 0, signer |-> 0]
NoResult == [message |-> NIL, ok |-> FALSE, panic |-> FALSE]

\* The package-level variables as the packages initialise them.
PackageVars ==
    [stoutbox |-> [PRNG |-> "rand.Reader", curve |-> "P521",
                   Overhead |-> stoutbox_Overhead, SignedOverhead |-> stoutbox_SignedOverhead],
     strongbox |-> [PRNG |-> "rand.Reader"]]

\* The threads that call the library, and a thread that is in no call.
Threads == {1, 2}
NoInvocation ==
    [pc |-> "idle", pkg |-> "", op |-> "", args |-> <<>>, draws |-> <<>>, reads |-> <<>>,
     result |-> [out |-> NIL, ok |-> FALSE]]

\* The draws of one sealing call.
Rnd(k, eph) == [k |-> k, eph |-> eph, iv |-> Iv(0)]
SharedRnd(k, eph, n) ==
    [k |-> k, eph |-> eph, iv |-> Iv(0), key |-> PayloadKey, ivs |-> [i \in 1..n |-> Iv(i)]]

\* The draws the sealing calls may get from a working random source.  A
\* shared box draws one nonce for each peer of the longest list.
MaxList == IF MaxPeers > MaxSharedKeys THEN MaxPeers ELSE MaxSharedKeys
SealDraws == {Rnd(0, e) : e \in EphScalars}
SignDraws(nonces) == {Rnd(k, e) : k \in nonces, e \in EphScalars}
SharedDraws(nonces) == {SharedRnd(k, e, MaxList) : k \in nonces, e \in EphScalars}

-----------------------------------------------------------------------------
(* The state machine: key pairs are generated, one call seals a message,   *)
(* the box may be altered in transit, and one call opens it.               *)

Init ==
    /\ pc = "idle"
    /\ keyring = {}
    /\ call = NoCall
    /\ box = NIL
    /\ sealOk = FALSE
    /\ tamper = {}
    /\ opening = NoOpening
    /\ result = NoResult
    /\ globals = PackageVars
    /\ reader = 0
    /\ threads = [t \in Threads |-> NoInvocation]

\* box.GenerateKey / stoutbox.GenerateKey: the scalar d was drawn.
GenerateKey(scalars) ==
    /\ pc = "idle"
    /\ \E d \in scalars \ keyring :
          /\ box_GenerateKey(d).ok
          /\ stoutbox_GenerateKey(d).ok
          /\ keyring' = keyring \cup {d}
    /\ UNCHANGED <<pc, call, box, sealOk, tamper, opening, result, globals, reader, threads>>

Sealed(c, r) ==
    /\ pc' = "sealed"
    /\ call' = c
    /\ box' = r.box
    /\ sealOk' = r.ok
    /\ UNCHANGED <<keyring, tamper, opening, result, globals, reader, threads>>

SecretboxSeal(msgs, fills) ==
    /\ pc = "idle"
    /\ \E m \in msgs, f \in fills :
          LET key == secretbox_GenerateKey(
                         SymKey(f[1], f[2], secretbox_cryptKeySize, secretbox_tagKeySize)).key
          IN  Sealed([NoCall EXCEPT !.pkg = "secretbox", !.op = "Seal",
                                    !.message = m, !.key = key],
                     secretbox_Seal(m, key, Iv(0)))

StrongboxSeal(msgs, fills) ==
    /\ pc = "idle"
    /\ \E m \in msgs, f \in fills :
          LET key == strongbox_GenerateKey(
                         SymKey(f[1], f[2], strongbox_cryptKeySize, strongbox_tagKeySize)).key
          IN  Sealed([NoCall EXCEPT !.pkg = "strongbox", !.op = "Seal",
                                    !.message = m, !.key = key],
                     strongbox_Seal(m, key, Iv(0)))

BoxSeal(msgs, rnds) ==
    /\ pc = "idle"
    /\ \E m \in msgs, p \in keyring, r \in rnds :
          Sealed([NoCall EXCEPT !.pkg = "box", !.op = "Seal", !.message = m,
                                !.peers = <<p>>, !.rnd = r],
                 box_Seal(m, box_GenerateKey(p).pub, r))

BoxSignAndSeal(msgs, rnds) ==
    /\ pc = "idle"
    /\ \E m \in msgs, p \in keyring, sg \in keyring, r \in rnds :
          Sealed([NoCall EXCEPT !.pkg = "box", !.op = "SignAndSeal", !.message = m,
                                !.peers = <<p>>, !.signer = sg, !.rnd = r],
                 box_SignAndSeal(m, box_GenerateKey(sg).key, box_GenerateKey(sg).pub,
                                 box_GenerateKey(p).pub, r))

StoutboxSeal(msgs, rnds) ==
    /\ pc = "idle"
    /\ \E m \in msgs, p \in keyring, r \in rnds :
          Sealed([NoCall EXCEPT !.pkg = "stoutbox", !.op = "Seal", !.message = m,
                                !.peers = <<p>>, !.rnd = r],
                 stoutbox_Seal(m, stoutbox_GenerateKey(p).pub, r))

StoutboxSignAndSeal(msgs, rnds) ==
    /\ pc = "idle"
    /\ \E m \in msgs, p \in keyring, sg \in keyring, r \in rnds :
          Sealed([NoCall EXCEPT !.pkg = "stoutbox", !.op = "SignAndSeal", !.message = m,
                                !.peers = <<p>>, !.signer = sg, !.rnd = r],
                 stoutbox_SignAndSeal(m, stoutbox_GenerateKey(sg).key,
                                      stoutbox_GenerateKey(sg).pub,
                                      stoutbox_GenerateKey(p).pub, r))

PubKeys(ps) == [i \in 1..Len(ps) |-> stoutbox_GenerateKey(ps[i]).pub]

StoutboxSealShared(msgs, lists, rnds) ==
    /\ pc = "idle"
    /\ \E m \in msgs, ps \in lists, r \in rnds :
          Sealed([NoCall EXCEPT !.pkg = "stoutbox", !.op = "SealShared", !.message = m,
                                !.peers = ps, !.rnd = r],
                 stoutbox_SealShared(m, PubKeys(ps), r))

StoutboxSignAndSealShared(msgs, lists, rnds) ==
    /\ pc = "idle"
    /\ \E m \in msgs, ps \in lists, sg \in keyring, r \in rnds :
          Sealed([NoCall EXCEPT !.pkg = "stoutbox", !.op = "SignAndSealShared",
                                !.message = m, !.peers = ps, !.signer = sg, !.rnd = r],
                 stoutbox_SignAndSealShared(m, PubKeys(ps), stoutbox_GenerateKey(sg).key,
                                            stoutbox_GenerateKey(sg).pub, r))

\* The box is altered in transit: one more bit of it is flipped (the mutate
\* of the tests), at most n bits in all.
Mutate(n, masks) ==
    /\ pc = "sealed"
    /\ sealOk
    /\ Cardinality(tamper) < n
    /\ \E pos \in 1..len(box), mask \in masks :
          /\ <<pos, mask>> \notin tamper
          /\ box' = [box EXCEPT ![pos] = Xor(@, mask)]
          /\ tamper' = tamper \cup {<<pos, mask>>}
    /\ UNCHANGED <<pc, keyring, call, sealOk, opening, result, globals, reader, threads>>

Opened(o, r) ==
    /\ pc' = "opened"
    /\ opening' = o
    /\ result' = r
    /\ UNCHANGED <<keyring, call, box, sealOk, tamper, globals, reader, threads>>

SecretboxOpen(fills) ==
    /\ pc = "sealed"
    /\ call.pkg = "secretbox"
    /\ \E f \in fills :
          LET key == SymKey(f[1], f[2], secretbox_cryptKeySize, secretbox_tagKeySize)
          IN  Opened([NoOpening EXCEPT !.op = "Open", !.key = key],
                     [panic |-> FALSE] @@ secretbox_Open(box, key))

StrongboxOpen(fills) ==
    /\ pc = "sealed"
    /\ call.pkg = "strongbox"
    /\ \E f \in fills :
          LET key == SymKey(f[1], f[2], strongbox_cryptKeySize, strongbox_tagKeySize)
          IN  Opened([NoOpening EXCEPT !.op = "Open", !.key = key],
                     [panic |-> FALSE] @@ strongbox_Open(box, key))

BoxOpen ==
    /\ pc = "sealed"
    /\ call.pkg = "box"
    /\ \E d \in keyring :
          Opened([NoOpening EXCEPT !.op = "Open", !.scalar = d],
                 [panic |-> FALSE] @@ box_Open(box, box_GenerateKey(d).key))

BoxOpenAndVerify ==
    /\ pc = "sealed"
    /\ call.pkg = "box"
    /\ \E d \in keyring, sg \in keyring :
          Opened([NoOpening EXCEPT !.op = "OpenAndVerify", !.scalar = d, !.signer = sg],
                 box_OpenAndVerify(box, box_GenerateKey(d).key, box_GenerateKey(sg).pub))

StoutboxOpen ==
    /\ pc = "sealed"
    /\ call.pkg = "stoutbox"
    /\ \E d \in keyring :
          Opened([NoOpening EXCEPT !.op = "Open", !.scalar = d],
                 stoutbox_Open(box, stoutbox_GenerateKey(d).key))

StoutboxOpenAndVerify ==
    /\ pc = "sealed"
    /\ call.pkg = "stoutbox"
    /\ \E d \in keyring, sg \in keyring :
          Opened([NoOpening EXCEPT !.op = "OpenAndVerify", !.scalar = d, !.signer = sg],
                 stoutbox_OpenAndVerify(box, stoutbox_GenerateKey(d).key,
                                        stoutbox_GenerateKey(sg).pub))

StoutboxOpenShared ==
    /\ pc = "sealed"
    /\ call.pkg = "stoutbox"
    /\ \E d \in keyring :
          Opened([NoOpening EXCEPT !.op = "OpenShared", !.scalar = d],
                 stoutbox_OpenShared(box, stoutbox_GenerateKey(d).key,
                                     stoutbox_GenerateKey(d).pub))

StoutboxOpenSharedAndVerify ==
    /\ pc = "sealed"
    /\ call.pkg = "stoutbox"
    /\ \E d \in keyring, sg \in keyring :
          Opened([NoOpening EXCEPT !.op = "OpenSharedAndVerify", !.scalar = d,
                                   !.signer = sg],
                 stoutbox_OpenSharedAndVerify(box, stoutbox_GenerateKey(d).key,
                                              stoutbox_GenerateKey(d).pub,
                                              stoutbox_GenerateKey(sg).pub))

\* Untampered traffic: every message, key and nonce of the input sets.
Next ==
    \/ GenerateKey(KeyScalars)
    \/ SecretboxSeal(Messages, SymFills)
    \/ StrongboxSeal(Messages, SymFills)
    \/ BoxSeal(Messages, SealDraws)
    \/ BoxSignAndSeal(Messages, SignDraws(SigNonces))
    \/ StoutboxSeal(Messages, SealDraws)
    \/ StoutboxSignAndSeal(Messages, SignDraws(SigNonces))
    \/ StoutboxSealShared(Messages, AnyPeers(keyring), SharedDraws({0}))
    \/ StoutboxSignAndSealShared(Messages, AnyPeers(keyring), SharedDraws(SigNonces))
    \/ SecretboxOpen(SymFills)
    \/ StrongboxOpen(SymFills)
    \/ BoxOpen
    \/ BoxOpenAndVerify
    \/ StoutboxOpen
    \/ StoutboxOpenAndVerify
    \/ StoutboxOpenShared
    \/ StoutboxOpenSharedAndVerify

Spec == Init /\ [][Next]_vars

\* Symmetric boxes altered in transit by up to MaxFlips bit flips: the first
\* of the low or the high bit of a byte, the further ones of the low bit.
NextSymTamper ==
    \/ SecretboxSeal(TamperMessages, TamperFills)
    \/ StrongboxSeal(TamperMessages, TamperFills)
    \/ Mutate(MaxFlips, IF tamper = {} THEN FlipMasks ELSE LowBit)
    \/ SecretboxOpen(TamperFills)
    \/ StrongboxOpen(TamperFills)

SpecSymTamper == Init /\ [][NextSymTamper]_vars

\* Single-recipient boxes altered in transit by one bit flip.
NextBoxTamper ==
    \/ GenerateKey(TamperScalars)
    \/ BoxSeal(TamperMessages, SealDraws)
    \/ BoxSignAndSeal(TamperMessages, SignDraws(TamperNonces))
    \/ StoutboxSeal(TamperMessages, SealDraws)
    \/ StoutboxSignAndSeal(TamperMessages, SignDraws(TamperNonces))
    \/ Mutate(1, FlipMasks)
    \/ BoxOpen
    \/ BoxOpenAndVerify
    \/ StoutboxOpen
    \/ StoutboxOpenAndVerify

SpecBoxTamper == Init /\ [][NextBoxTamper]_vars

\* Shared boxes altered in transit by one bit flip.
NextSharedTamper ==
    \/ GenerateKey(SharedScalars)
    \/ StoutboxSealShared(TamperMessages, AllPeers(keyring), SharedDraws({0}))
    \/ StoutboxSignAndSealShared(TamperMessages, AllPeers(keyring), SharedDraws(SharedNonces))
    \/ Mutate(1, FlipMasks)
    \/ StoutboxOpenShared
    \/ StoutboxOpenSharedAndVerify

SpecSharedTamper == Init /\ [][NextSharedTamper]_vars

\* The symmetric packages alone: sealing under one key, opening under any.
NextSym ==
    \/ SecretboxSeal(Messages, SymFills)
    \/ StrongboxSeal(Messages, SymFills)
    \/ SecretboxOpen(SymFills)
    \/ StrongboxOpen(SymFills)

SpecSym == Init /\ [][NextSym]_vars

\* The single-recipient sealing calls alone.
NextSeal ==
    \/ GenerateKey(KeyScalars)
    \/ SecretboxSeal(Messages, SymFills)
    \/ StrongboxSeal(Messages, SymFills)
    \/ BoxSeal(Messages, SealDraws)
    \/ BoxSignAndSeal(Messages, SignDraws(SigNonces))
    \/ StoutboxSeal(Messages, SealDraws)
    \/ StoutboxSignAndSeal(Messages, SignDraws(SigNonces))

SpecSeal == Init /\ [][NextSeal]_vars

-----------------------------------------------------------------------------
(* Calls with arguments of any shape *)

\* Key arguments by length: none (nil), empty, short, exact, long.
KeyLengths(size) == {0, 1, size - 1, size, size + 1, 2 * size, 3 * size}
KeyArgs(size) == {NIL} \cup {Fill(n, 7) : n \in KeyLengths(size)}

Returns(c, o, r) ==
    /\ pc' = "opened"
    /\ call' = c
    /\ opening' = o
    /\ result' = r
    /\ UNCHANGED <<keyring, box, sealOk, tamper, globals, reader, threads>>

\* box.KeyIsSuitable(key, pub)
BoxKeyIsSuitable ==
    /\ pc = "idle"
    /\ \E key \in KeyArgs(box_privateKeySize), pub \in KeyArgs(box_publicKeySize) :
          Returns([NoCall EXCEPT !.pkg = "box", !.op = "KeyIsSuitable"],
                  [NoOpening EXCEPT !.op = "KeyIsSuitable", !.key = key, !.pub = pub],
                  [NoResult EXCEPT !.ok = box_KeyIsSuitable(key, pub)])

\* stoutbox.KeyIsSuitable(key, pub)
StoutboxKeyIsSuitable ==
    /\ pc = "idle"
    /\ \E key \in KeyArgs(stoutbox_privateKeySize), pub \in KeyArgs(stoutbox_publicKeySize) :
          Returns([NoCall EXCEPT !.pkg = "stoutbox", !.op = "KeyIsSuitable"],
                  [NoOpening EXCEPT !.op = "KeyIsSuitable", !.key = key, !.pub = pub],
                  [NoResult EXCEPT !.ok = stoutbox_KeyIsSuitable(key, pub)])

NextKeyIsSuitable ==
    \/ BoxKeyIsSuitable
    \/ StoutboxKeyIsSuitable

SpecKeyIsSuitable == Init /\ [][NextKeyIsSuitable]_vars

-----------------------------------------------------------------------------
(* Calls whose random source fails *)

\* The draws of a call of which one fails: the signing nonce, the ephemeral
\* scalar or the nonce of the payload and, for a shared box, the payload key
\* or the nonce of one key wrap.
FailOne(r) == {[r EXCEPT !.k = 0], [r EXCEPT !.eph = 0], [r EXCEPT !.iv = NIL]}
FailOneShared(r) ==
    FailOne(r) \cup {[r EXCEPT !.key = NIL]}
               \cup {[r EXCEPT !.ivs[i] = NIL] : i \in DOMAIN r.ivs}
Failing(rnds) == rnds \cup UNION {FailOne(r) : r \in rnds}
FailingShared(rnds) == rnds \cup UNION {FailOneShared(r) : r \in rnds}

\* box.GenerateKey(): d is the scalar drawn, 0 when the source failed.
BoxGenerateKey(scalars) ==
    /\ pc = "idle"
    /\ \E d \in scalars :
          With(box_GenerateKey(d), LAMBDA g :
          Sealed([NoCall EXCEPT !.pkg = "box", !.op = "GenerateKey", !.key = g.key,
                                !.rnd = [NoRnd EXCEPT !.eph = d]],
                 [box |-> g.pub, ok |-> g.ok]))

\* stoutbox.GenerateKey()
StoutboxGenerateKey(scalars) ==
    /\ pc = "idle"
    /\ \E d \in scalars :
          With(stoutbox_GenerateKey(d), LAMBDA g :
          Sealed([NoCall EXCEPT !.pkg = "stoutbox", !.op = "GenerateKey", !.key = g.key,
                                !.rnd = [NoRnd EXCEPT !.eph = d]],
                 [box |-> g.pub, ok |-> g.ok]))

\* stoutbox.Sign(message, key, pub): the signature is kept in box.
StoutboxSign(msgs, nonces) ==
    /\ pc = "idle"
    /\ \E m \in msgs, sg \in keyring, k \in nonces :
          With(stoutbox_Sign(m, stoutbox_GenerateKey(sg).key,
                             stoutbox_GenerateKey(sg).pub, k), LAMBDA s :
          Sealed([NoCall EXCEPT !.pkg = "stoutbox", !.op = "Sign", !.message = m,
                                !.signer = sg, !.rnd = [NoRnd EXCEPT !.k = k]],
                 [box |-> s.signature, ok |-> s.ok]))

\* stoutbox.SignKey(priv, pub, peer): the signature is kept in box.
StoutboxSignKey(nonces) ==
    /\ pc = "idle"
    /\ \E sg \in keyring, p \in keyring, k \in nonces :
          With(stoutbox_SignKey(stoutbox_GenerateKey(sg).key, stoutbox_GenerateKey(sg).pub,
                                stoutbox_GenerateKey(p).pub, k), LAMBDA s :
          Sealed([NoCall EXCEPT !.pkg = "stoutbox", !.op = "SignKey", !.peers = <<p>>,
                                !.signer = sg, !.rnd = [NoRnd EXCEPT !.k = k]],
                 [box |-> s.sig, ok |-> s.ok]))

NextRandom ==
    \/ GenerateKey(SharedScalars)
    \/ BoxGenerateKey(SharedScalars \cup {0})
    \/ StoutboxGenerateKey(SharedScalars \cup {0})
    \/ BoxSeal(TamperMessages, Failing(SealDraws))
    \/ BoxSignAndSeal(TamperMessages, Failing(SignDraws(SharedNonces)))
    \/ StoutboxSeal(TamperMessages, Failing(SealDraws))
    \/ StoutboxSignAndSeal(TamperMessages, Failing(SignDraws(SharedNonces)))
    \/ StoutboxSign(TamperMessages, SharedNonces \cup {0})
    \/ StoutboxSignKey(SharedNonces \cup {0})
    \/ StoutboxSealShared(TamperMessages, AllPeers(keyring),
                          FailingShared(SharedDraws({0})))
    \/ StoutboxSignAndSealShared(TamperMessages, AllPeers(keyring),
                                 FailingShared(SharedDraws(SharedNonces)))

SpecRandom == Init /\ [][NextRandom]_vars

-----------------------------------------------------------------------------
(* The 50-year profile alone: every opening call on every kind of box *)

NextStout ==
    \/ GenerateKey(SharedScalars)
    \/ StoutboxSeal(TamperMessages, SealDraws)
    \/ StoutboxSignAndSeal(TamperMessages, SignDraws(SharedNonces))
    \/ StoutboxSealShared(TamperMessages, AnyPeers(keyring), SharedDraws({0}))
    \/ StoutboxSignAndSealShared(TamperMessages, AnyPeers(keyring), SharedDraws(SharedNonces))
    \/ StoutboxOpen
    \/ StoutboxOpenAndVerify
    \/ StoutboxOpenShared
    \/ StoutboxOpenSharedAndVerify

SpecStout == Init /\ [][NextStout]_vars

-----------------------------------------------------------------------------
(* Calls that are given a public key that may not decode *)

\* A public-key argument made of a generated key: the key itself, the key
\* with its X coordinate altered (a point off the curve), in another form
\* (a first byte other than 4), or short of one byte.
PubArg(pub, a) ==
    CASE a = "valid" -> pub
      [] a = "curve" -> [pub EXCEPT ![(Len(pub) - 1) \div 2 + 1] = Xor(@, 1)]
      [] a = "form" -> [pub EXCEPT ![1] = 2]
      [] a = "short" -> SubSeq(pub, 1, Len(pub) - 1)

PubArgs == {"valid", "curve", "form", "short"}

\* box.Seal(message, peer)
KeyedBoxSeal(msgs, args) ==
    /\ pc = "idle"
    /\ \E m \in msgs, p \in keyring, a \in args, r \in SealDraws :
          With(PubArg(box_GenerateKey(p).pub, a), LAMBDA peer :
          With(box_Seal(m, peer, r), LAMBDA s :
          Returns([NoCall EXCEPT !.pkg = "box", !.op = "Seal", !.message = m,
                                 !.peers = <<p>>, !.rnd = r],
                  [NoOpening EXCEPT !.op = "Seal", !.pub = peer],
                  [NoResult EXCEPT !.message = s.box, !.ok = s.ok])))

\* box.SignAndSeal(message, key, public, peer): one of public and peer is
\* the argument in question.
KeyedBoxSignAndSeal(msgs, args) ==
    /\ pc = "idle"
    /\ \E m \in msgs, p \in keyring, sg \in keyring, a \in args,
          which \in {"public", "peer"}, r \in SignDraws(SharedNonces) :
          With(PubArg(box_GenerateKey(sg).pub, IF which = "public" THEN a ELSE "valid"),
               LAMBDA public :
          With(PubArg(box_GenerateKey(p).pub, IF which = "peer" THEN a ELSE "valid"),
               LAMBDA peer :
          With(box_SignAndSeal(m, box_GenerateKey(sg).key, public, peer, r), LAMBDA s :
          Returns([NoCall EXCEPT !.pkg = "box", !.op = "SignAndSeal", !.message = m,
                                 !.peers = <<p>>, !.signer = sg, !.rnd = r],
                  [NoOpening EXCEPT !.op = "SignAndSeal",
                                    !.pub = IF which = "public" THEN public ELSE peer],
                  [NoResult EXCEPT !.message = s.box, !.ok = s.ok]))))

\* box.OpenAndVerify(box, key, peer)
KeyedBoxOpenAndVerify(args) ==
    /\ pc = "sealed"
    /\ call.pkg = "box"
    /\ \E d \in keyring, sg \in keyring, a \in args :
          With(PubArg(box_GenerateKey(sg).pub, a), LAMBDA peer :
          Opened([NoOpening EXCEPT !.op = "OpenAndVerify", !.scalar = d, !.signer = sg,
                                   !.pub = peer],
                 box_OpenAndVerify(box, box_GenerateKey(d).key, peer)))

\* stoutbox.SharedKey(key, peer)
KeyedStoutboxSharedKey(args) ==
    /\ pc = "idle"
    /\ \E d \in keyring, p \in keyring, a \in args :
          With(PubArg(stoutbox_GenerateKey(p).pub, a), LAMBDA peer :
          With(stoutbox_SharedKey(stoutbox_GenerateKey(d).key, peer), LAMBDA s :
          Returns([NoCall EXCEPT !.pkg = "stoutbox", !.op = "SharedKey", !.peers = <<p>>],
                  [NoOpening EXCEPT !.op = "SharedKey", !.scalar = d, !.pub = peer],
                  [NoResult EXCEPT !.message = s.key, !.ok = s.ok])))

\* stoutbox.Seal(message, peer)
KeyedStoutboxSeal(msgs, args) ==
    /\ pc = "idle"
    /\ \E m \in msgs, p \in keyring, a \in args, r \in SealDraws :
          With(PubArg(stoutbox_GenerateKey(p).pub, a), LAMBDA peer :
          With(stoutbox_Seal(m, peer, r), LAMBDA s :
          Returns([NoCall EXCEPT !.pkg = "stoutbox", !.op = "Seal", !.message = m,
                                 !.peers = <<p>>, !.rnd = r],
                  [NoOpening EXCEPT !.op = "Seal", !.pub = peer],
                  [NoResult EXCEPT !.message = s.box, !.ok = s.ok])))

\* stoutbox.Sign(message, key, pub)
KeyedStoutboxSign(msgs, args) ==
    /\ pc = "idle"
    /\ \E m \in msgs, sg \in keyring, a \in args, k \in SharedNonces :
          With(PubArg(stoutbox_GenerateKey(sg).pub, a), LAMBDA pub :
          With(stoutbox_Sign(m, stoutbox_GenerateKey(sg).key, pub, k), LAMBDA s :
          Returns([NoCall EXCEPT !.pkg = "stoutbox", !.op = "Sign", !.message = m,
                                 !.signer = sg, !.rnd = [NoRnd EXCEPT !.k = k]],
                  [NoOpening EXCEPT !.op = "Sign", !.pub = pub],
                  [NoResult EXCEPT !.message = s.signature, !.ok = s.ok])))

\* stoutbox.Verify(message, signature, signer) of a signature of the message.
KeyedStoutboxVerify(msgs, args) ==
    /\ pc = "idle"
    /\ \E m \in msgs, sg \in keyring, a \in args, k \in SharedNonces :
          With(PubArg(stoutbox_GenerateKey(sg).pub, a), LAMBDA signer :
          With(stoutbox_Sign(m, stoutbox_GenerateKey(sg).key,
                             stoutbox_GenerateKey(sg).pub, k), LAMBDA s :
          Returns([NoCall EXCEPT !.pkg = "stoutbox", !.op = "Verify", !.message = m,
                                 !.signer = sg, !.rnd = [NoRnd EXCEPT !.k = k]],
                  [NoOpening EXCEPT !.op = "Verify", !.signer = sg, !.pub = signer],
                  [NoResult EXCEPT !.ok = stoutbox_Verify(m, s.signature, signer)])))

\* stoutbox.SignAndSeal(message, key, public, peer)
KeyedStoutboxSignAndSeal(msgs, args) ==
    /\ pc = "idle"
    /\ \E m \in msgs, p \in keyring, sg \in keyring, a \in args,
          which \in {"public", "peer"}, r \in SignDraws(SharedNonces) :
          With(PubArg(stoutbox_GenerateKey(sg).pub, IF which = "public" THEN a ELSE "valid"),
               LAMBDA public :
          With(PubArg(stoutbox_GenerateKey(p).pub, IF which = "peer" THEN a ELSE "valid"),
               LAMBDA peer :
          With(stoutbox_SignAndSeal(m, stoutbox_GenerateKey(sg).key, public, peer, r),
               LAMBDA s :
          Returns([NoCall EXCEPT !.pkg = "stoutbox", !.op = "SignAndSeal", !.message = m,
                                 !.peers = <<p>>, !.signer = sg, !.rnd = r],
                  [NoOpening EXCEPT !.op = "SignAndSeal",
                                    !.pub = IF which = "public" THEN public ELSE peer],
                  [NoResult EXCEPT !.message = s.box, !.ok = s.ok]))))

\* stoutbox.OpenAndVerify(box, key, peer)
KeyedStoutboxOpenAndVerify(args) ==
    /\ pc = "sealed"
    /\ call.pkg = "stoutbox"
    /\ \E d \in keyring, sg \in keyring, a \in args :
          With(PubArg(stoutbox_GenerateKey(sg).pub, a), LAMBDA peer :
          Opened([NoOpening EXCEPT !.op = "OpenAndVerify", !.scalar = d, !.signer = sg,
                                   !.pub = peer],
                 stoutbox_OpenAndVerify(box, stoutbox_GenerateKey(d).key, peer)))

\* stoutbox.SignKey(priv, pub, peer): one of pub and peer is the argument in
\* question; the signature is the message of the result.
KeyedStoutboxSignKey(args) ==
    /\ pc = "idle"
    /\ \E sg \in keyring, p \in keyring, a \in args, which \in {"pub", "peer"},
          k \in SharedNonces :
          With(PubArg(stoutbox_GenerateKey(sg).pub, IF which = "pub" THEN a ELSE "valid"),
               LAMBDA pub :
          With(PubArg(stoutbox_GenerateKey(p).pub, IF which = "peer" THEN a ELSE "valid"),
               LAMBDA peer :
          With(stoutbox_SignKey(stoutbox_GenerateKey(sg).key, pub, peer, k), LAMBDA s :
          Returns([NoCall EXCEPT !.pkg = "stoutbox", !.op = "SignKey", !.peers = <<p>>,
                                 !.signer = sg, !.rnd = [NoRnd EXCEPT !.k = k]],
                  [NoOpening EXCEPT !.op = "SignKey", !.signer = sg,
                                    !.pub = IF which = "pub" THEN pub ELSE peer],
                  [NoResult EXCEPT !.message = s.sig, !.ok = s.ok]))))

\* stoutbox.VerifySignedKey(pub, sigpub, sig) of the signature SignKey made of
\* the bytes of pub: one of pub and sigpub is the argument in question.
KeyedStoutboxVerifySignedKey(args) ==
    /\ pc = "idle"
    /\ \E sg \in keyring, p \in keyring, a \in args, which \in {"pub", "sigpub"},
          k \in SharedNonces :
          With(PubArg(stoutbox_GenerateKey(p).pub, IF which = "pub" THEN a ELSE "valid"),
               LAMBDA pub :
          With(PubArg(stoutbox_GenerateKey(sg).pub, IF which = "sigpub" THEN a ELSE "valid"),
               LAMBDA sigpub :
          With(stoutbox_SignKey(stoutbox_GenerateKey(sg).key, stoutbox_GenerateKey(sg).pub,
                                pub, k), LAMBDA s :
          Returns([NoCall EXCEPT !.pkg = "stoutbox", !.op = "VerifySignedKey",
                                 !.peers = <<p>>, !.signer = sg,
                                 !.rnd = [NoRnd EXCEPT !.k = k]],
                  [NoOpening EXCEPT !.op = "VerifySignedKey", !.signer = sg,
                                    !.pub = IF which = "pub" THEN pub ELSE sigpub],
                  [NoResult EXCEPT !.ok = stoutbox_VerifySignedKey(pub, sigpub, s.sig)]))))

\* stoutbox.SealShared(message, peers): one peer of the list is the argument
\* in question.
KeyedStoutboxSealShared(msgs, lists, args) ==
    /\ pc = "idle"
    /\ \E m \in msgs, ps \in lists, a \in args, r \in SharedDraws({0}) :
       \E i \in 1..Len(ps) :
          With([PubKeys(ps) EXCEPT ![i] = PubArg(@, a)], LAMBDA peers :
          With(stoutbox_SealShared(m, peers, r), LAMBDA s :
          Returns([NoCall EXCEPT !.pkg = "stoutbox", !.op = "SealShared", !.message = m,
                                 !.peers = ps, !.rnd = r],
                  [NoOpening EXCEPT !.op = "SealShared", !.pub = peers[i]],
                  [NoResult EXCEPT !.message = s.box, !.ok = s.ok])))

\* stoutbox.SignAndSealShared(message, peers, sigkey, sigpub): sigpub (i = 0)
\* or one peer of the list is the argument in question.
KeyedStoutboxSignAndSealShared(msgs, lists, args) ==
    /\ pc = "idle"
    /\ \E m \in msgs, ps \in lists, sg \in keyring, a \in args,
          r \in SharedDraws(SharedNonces) :
       \E i \in 0..Len(ps) :
          With(PubArg(stoutbox_GenerateKey(sg).pub, IF i = 0 THEN a ELSE "valid"),
               LAMBDA sigpub :
          With([j \in 1..Len(ps) |->
                   PubArg(PubKeys(ps)[j], IF j = i THEN a ELSE "valid")], LAMBDA peers :
          With(stoutbox_SignAndSealShared(m, peers, stoutbox_GenerateKey(sg).key, sigpub, r),
               LAMBDA s :
          Returns([NoCall EXCEPT !.pkg = "stoutbox", !.op = "SignAndSealShared",
                                 !.message = m, !.peers = ps, !.signer = sg, !.rnd = r],
                  [NoOpening EXCEPT !.op = "SignAndSealShared",
                                    !.pub = IF i = 0 THEN sigpub ELSE peers[i]],
                  [NoResult EXCEPT !.message = s.box, !.ok = s.ok]))))

\* stoutbox.OpenShared(box, key, public)
KeyedStoutboxOpenShared(args) ==
    /\ pc = "sealed"
    /\ call.pkg = "stoutbox"
    /\ \E d \in keyring, a \in args :
          With(PubArg(stoutbox_GenerateKey(d).pub, a), LAMBDA public :
          Opened([NoOpening EXCEPT !.op = "OpenShared", !.scalar = d, !.pub = public],
                 stoutbox_OpenShared(box, stoutbox_GenerateKey(d).key, public)))

\* stoutbox.OpenSharedAndVerify(box, key, public, signer): one of public and
\* signer is the argument in question.
KeyedStoutboxOpenSharedAndVerify(args) ==
    /\ pc = "sealed"
    /\ call.pkg = "stoutbox"
    /\ \E d \in keyring, sg \in keyring, a \in args, which \in {"public", "signer"} :
          With(PubArg(stoutbox_GenerateKey(d).pub, IF which = "public" THEN a ELSE "valid"),
               LAMBDA public :
          With(PubArg(stoutbox_GenerateKey(sg).pub, IF which = "signer" THEN a ELSE "valid"),
               LAMBDA signer :
          Opened([NoOpening EXCEPT !.op = "OpenSharedAndVerify", !.scalar = d,
                                   !.signer = sg,
                                   !.pub = IF which = "public" THEN public ELSE signer],
                 stoutbox_OpenSharedAndVerify(box, stoutbox_GenerateKey(d).key,
                                              public, signer))))

NextKeyed ==
    \/ GenerateKey(SharedScalars)
    \/ BoxSignAndSeal(TamperMessages, SignDraws(SharedNonces))
    \/ StoutboxSignAndSeal(TamperMessages, SignDraws(SharedNonces))
    \/ StoutboxSealShared(TamperMessages, AllPeers(keyring), SharedDraws({0}))
    \/ StoutboxSignAndSealShared(TamperMessages, AllPeers(keyring), SharedDraws(SharedNonces))
    \/ KeyedBoxSeal(TamperMessages, PubArgs)
    \/ KeyedBoxSignAndSeal(TamperMessages, PubArgs)
    \/ KeyedBoxOpenAndVerify(PubArgs)
    \/ KeyedStoutboxSharedKey(PubArgs)
    \/ KeyedStoutboxSeal(TamperMessages, PubArgs)
    \/ KeyedStoutboxSign(TamperMessages, PubArgs)
    \/ KeyedStoutboxVerify(TamperMessages, PubArgs)
    \/ KeyedStoutboxSignAndSeal(TamperMessages, PubArgs)
    \/ KeyedStoutboxOpenAndVerify(PubArgs)
    \/ KeyedStoutboxSignKey(PubArgs)
    \/ KeyedStoutboxVerifySignedKey(PubArgs)
    \/ KeyedStoutboxSealShared(TamperMessages, AllPeers(keyring), PubArgs)
    \/ KeyedStoutboxSignAndSealShared(TamperMessages, AllPeers(keyring), PubArgs)
    \/ KeyedStoutboxOpenShared(PubArgs)
    \/ KeyedStoutboxOpenSharedAndVerify(PubArgs)

SpecKeyed == Init /\ [][NextKeyed]_vars

-----------------------------------------------------------------------------
(* Signed boxes of every kind, opened and verified *)

NextSigned ==
    \/ GenerateKey(SharedScalars)
    \/ BoxSignAndSeal(Messages, SignDraws(SigNonces))
    \/ StoutboxSignAndSeal(Messages, SignDraws(SigNonces))
    \/ StoutboxSignAndSealShared(Messages, AllPeers(keyring), SharedDraws(SigNonces))
    \/ BoxOpenAndVerify
    \/ StoutboxOpenAndVerify
    \/ StoutboxOpenSharedAndVerify

SpecSigned == Init /\ [][NextSigned]_vars

-----------------------------------------------------------------------------
(* Key signing: a key is attested and the attestation is verified *)

\* mutate of the tests, one bit: the byte at f[1] is flipped by the mask f[2];
\* <<0, 0>> leaves the key as it is.  The bytes mutated are the form byte of
\* the key, the high and the low byte of X and the low byte of Y; on these
\* the checksum that stands for SHA-384 maps the key and the mutated key to
\* different integers of the group, as SHA-384 does on P-521 for every byte.
MutateKey(key, f) == IF f[1] = 0 THEN key ELSE [key EXCEPT ![f[1]] = Xor(@, f[2])]
KeyFlipBytes ==
    {1, 2, 1 + CoordLen(stoutbox_publicKeySize), stoutbox_publicKeySize}
KeyFlips == {<<0, 0>>} \cup (KeyFlipBytes \X FlipMasks)

\* stoutbox.VerifySignedKey(pub, sigpub, sig) of the signature SignKey
\* returned: pub and sigpub are generated keys, one of them mutated or not.
\* opening.pub is the attested key passed, opening.key the signer's.
StoutboxVerifySignedKey(flips) ==
    /\ pc = "sealed"
    /\ call.op = "SignKey"
    /\ \E p \in keyring, sg \in keyring, f \in flips, which \in {"pub", "sigpub"} :
          With(MutateKey(stoutbox_GenerateKey(p).pub, IF which = "pub" THEN f ELSE <<0, 0>>),
               LAMBDA pub :
          With(MutateKey(stoutbox_GenerateKey(sg).pub,
                         IF which = "sigpub" THEN f ELSE <<0, 0>>), LAMBDA sigpub :
          Opened([NoOpening EXCEPT !.op = "VerifySignedKey", !.scalar = p, !.signer = sg,
                                   !.pub = pub, !.key = sigpub],
                 [NoResult EXCEPT !.ok = stoutbox_VerifySignedKey(pub, sigpub, box)])))

NextKeySigning ==
    \/ GenerateKey(SharedScalars)
    \/ StoutboxSignKey(SigNonces)
    \/ StoutboxVerifySignedKey(KeyFlips)

SpecKeySigning == Init /\ [][NextKeySigning]_vars

-----------------------------------------------------------------------------
(* The kinds of box of the 50-year profile *)

\* stoutbox.BoxIsSigned(box): the answer is the ok of the result.
StoutboxBoxIsSigned ==
    /\ pc = "sealed"
    /\ call.pkg = "stoutbox"
    /\ With(stoutbox_BoxIsSigned(box), LAMBDA s :
       Opened([NoOpening EXCEPT !.op = "BoxIsSigned"],
              [NoResult EXCEPT !.ok = s.signed, !.panic = s.panic]))

NextBoxType ==
    \/ GenerateKey(SharedScalars)
    \/ StoutboxSeal(Messages, SealDraws)
    \/ StoutboxSignAndSeal(Messages, SignDraws(SigNonces))
    \/ StoutboxSealShared(Messages, AnyPeers(keyring), SharedDraws({0}))
    \/ StoutboxSignAndSealShared(Messages, AnyPeers(keyring), SharedDraws(SigNonces))
    \/ StoutboxBoxIsSigned

SpecBoxType == Init /\ [][NextBoxType]_vars

-----------------------------------------------------------------------------
(* Shared boxes whose list may name a recipient twice, altered in the low  *)
(* bit of one byte                                                         *)

\* Every generated key listed once, or twice in a row.
RepeatedPeers(ks) == {<<d>> : d \in ks} \cup {<<d, d>> : d \in ks}

NextSharedScan ==
    \/ GenerateKey(TamperScalars)
    \/ StoutboxSealShared(TamperMessages, RepeatedPeers(keyring), SharedDraws({0}))
    \/ StoutboxSignAndSealShared(TamperMessages, AllPeers(keyring), SharedDraws(SharedNonces))
    \/ Mutate(1, LowBit)
    \/ StoutboxOpenShared
    \/ StoutboxOpenSharedAndVerify

SpecSharedScan == Init /\ [][NextSharedScan]_vars

-----------------------------------------------------------------------------
(* The frame writer and reader on their own: a bw is written to, its bytes  *)
(* may be altered, and a br reads them frame by frame                       *)

MaxFrames == 2

\* What is written: byte strings (nil and empty included) and uint32 counts
\* up to MaxInt, the largest count the integers of the model hold.
FrameData == {NIL} \cup {Msg(n) : n \in 0..MaxTamperLen}
FrameCounts == {0, 4, 65536, MaxInt}

Written == IF pc = "idle" THEN <<>> ELSE call.items
ReadsDone == IF pc = "opened" THEN opening.reads ELSE <<>>
Reader == IF pc = "opened" THEN opening.r ELSE newbr(box)

\* w.Write(data) on the writer whose bytes are box.
BwWrite(datas) ==
    /\ pc \in {"idle", "sealed"}
    /\ tamper = {}
    /\ Len(Written) < MaxFrames
    /\ \E d \in datas :
          Sealed([pkg |-> "stoutbox", op |-> "Write",
                  items |-> Append(Written, [u32 |-> FALSE, data |-> d, n |-> 0])],
                 [box |-> bw_Bytes(bw_Write(newbw(box), d)), ok |-> TRUE])

\* w.WriteUint32(n)
BwWriteUint32(counts) ==
    /\ pc \in {"idle", "sealed"}
    /\ tamper = {}
    /\ Len(Written) < MaxFrames
    /\ \E n \in counts :
          Sealed([pkg |-> "stoutbox", op |-> "WriteUint32",
                  items |-> Append(Written, [u32 |-> TRUE, data |-> NIL, n |-> n])],
                 [box |-> bw_Bytes(bw_WriteUint32(newbw(box), n)), ok |-> TRUE])

\* r.Next() on the reader of box: the first call is made on newbr(box).
BrNext ==
    /\ pc \in {"sealed", "opened"}
    /\ Len(ReadsDone) <= Len(call.items)
    /\ With(br_Next(Reader), LAMBDA x :
       Opened([op |-> "Next", before |-> Reader, r |-> x.r,
               reads |-> Append(ReadsDone, "Next")],
              [message |-> x.data, n |-> 0, ok |-> x.data # NIL, panic |-> FALSE]))

\* r.NextU32()
BrNextU32 ==
    /\ pc \in {"sealed", "opened"}
    /\ Len(ReadsDone) <= Len(call.items)
    /\ With(br_NextU32(Reader), LAMBDA x :
       Opened([op |-> "NextU32", before |-> Reader, r |-> x.r,
               reads |-> Append(ReadsDone, "NextU32")],
              [message |-> NIL, n |-> x.n, ok |-> x.ok, panic |-> FALSE]))

NextFraming ==
    \/ BwWrite(FrameData)
    \/ BwWriteUint32(FrameCounts)
    \/ Mutate(1, LowBit)
    \/ BrNext
    \/ BrNextU32

SpecFraming == Init /\ [][NextFraming]_vars

-----------------------------------------------------------------------------
(* OpenShared step by step: the recipient scan of unpackSharedBox, one      *)
(* iteration of its loop at a time, on boxes altered in the high bit of one *)
(* byte (which takes the declared peer count beyond 2^31)                   *)

HighBit == {128}

\* What OpenShared does once the scan has left shared (NIL: no key found).
AfterScan(b, unpacker, shared) ==
    IF shared = NIL THEN Failed
    ELSE With(br_Next(unpacker), LAMBDA sbox :
    IF sbox.data = NIL THEN Failed
    ELSE With(strongbox_Open(sbox.data, shared), LAMBDA m :
    IF ~m.ok THEN Failed
    ELSE IF m.message = NIL THEN Failed
    ELSE IF b[1] # BoxShared THEN Failed
    ELSE [message |-> m.message, ok |-> TRUE, panic |-> FALSE]))

ScanReturn(r) ==
    Opened([NoOpening EXCEPT !.op = "OpenShared", !.scalar = opening.scalar], r)

\* A pass of the loop that reads the next entry again on the pass after it.
ScanStepNoAdvance ==
    /\ pc = "scanning"
    /\ IF opening.i >= opening.peerCount THEN ScanReturn(Failed)
       ELSE With(br_Next(opening.peerUnpack), LAMBDA peer :
       IF peer.data = NIL THEN ScanReturn(Failed)
       ELSE With(br_Next(peer.r), LAMBDA sbox :
       IF sbox.data = NIL THEN ScanReturn(Failed)
       ELSE IF peer.data # opening.pub
            THEN /\ opening' = [opening EXCEPT !.i = @ + 1]
                 /\ UNCHANGED <<pc, keyring, call, box, sealOk, tamper, result, globals, reader, threads>>
       ELSE With(stoutbox_ecdh(opening.key, opening.e_pub), LAMBDA skey :
       IF ~skey.ok THEN ScanReturn(Failed)
       ELSE With(strongbox_Open(sbox.data, skey.key), LAMBDA shared :
       IF ~shared.ok THEN ScanReturn(Failed)
       ELSE ScanReturn(AfterScan(box, opening.unpacker, shared.message))))))

\* OpenShared up to the loop of unpackSharedBox: the frames are split and the
\* peer count is read.  The opener holds any key pair, listed or not.
ScanBegin(scalars) ==
    /\ pc = "sealed"
    /\ call.pkg = "stoutbox"
    /\ \E d \in scalars :
       LET key == stoutbox_GenerateKey(d).key
           public == stoutbox_GenerateKey(d).pub
           o == [NoOpening EXCEPT !.op = "OpenShared", !.scalar = d]
       IN
       IF box = NIL THEN Opened(o, Failed)
       ELSE IF ~stoutbox_KeyIsSuitable(key, public) THEN Opened(o, Failed)
       ELSE IF len(box) = 0 THEN Opened(o, Panicked)
       ELSE With(br_Next(newbr(Slice(box, 1, len(box)))), LAMBDA e_pub :
       IF e_pub.data = NIL THEN Opened(o, Failed)
       ELSE With(br_Next(e_pub.r), LAMBDA packedPeers :
       IF packedPeers.data = NIL THEN Opened(o, Failed)
       ELSE IF len(packedPeers.data) = 0 THEN Opened(o, Panicked)
       ELSE IF packedPeers.data[1] # peerList THEN Opened(o, Failed)
       ELSE With(br_NextU32(newbr(Slice(packedPeers.data, 1, len(packedPeers.data)))),
                 LAMBDA peerCount :
       IF ~peerCount.ok THEN Opened(o, Failed)
       ELSE /\ pc' = "scanning"
            /\ opening' = [op |-> "OpenShared", key |-> key, pub |-> public, scalar |-> d,
                           signer |-> 0, e_pub |-> e_pub.data, unpacker |-> packedPeers.r,
                           peerUnpack |-> peerCount.r, peerCount |-> peerCount.n, i |-> 0]
            /\ UNCHANGED <<keyring, call, box, sealOk, tamper, result, globals, reader, threads>>)))

\* One pass of `for i := uint32(0); i < peerCount; i++`: the test of i, the
\* two frames of the entry, and, on the opener's entry, the rest of the call.
ScanStep ==
    /\ pc = "scanning"
    /\ IF opening.i >= opening.peerCount THEN ScanReturn(Failed)
       ELSE With(br_Next(opening.peerUnpack), LAMBDA peer :
       IF peer.data = NIL THEN ScanReturn(Failed)
       ELSE With(br_Next(peer.r), LAMBDA sbox :
       IF sbox.data = NIL THEN ScanReturn(Failed)
       ELSE IF peer.data # opening.pub
            THEN /\ opening' = [opening EXCEPT !.peerUnpack = sbox.r, !.i = @ + 1]
                 /\ UNCHANGED <<pc, keyring, call, box, sealOk, tamper, result, globals, reader, threads>>
       ELSE With(stoutbox_ecdh(opening.key, opening.e_pub), LAMBDA skey :
       IF ~skey.ok THEN ScanReturn(Failed)
       ELSE With(strongbox_Open(sbox.data, skey.key), LAMBDA shared :
       IF ~shared.ok THEN ScanReturn(Failed)
       ELSE ScanReturn(AfterScan(box, opening.unpacker, shared.message))))))

NextScan ==
    \/ GenerateKey(TamperScalars)
    \/ StoutboxSealShared(TamperMessages, RepeatedPeers(keyring), SharedDraws({0}))
    \/ Mutate(1, HighBit)
    \/ ScanBegin(SharedScalars)
    \/ ScanStep

\* The thread that runs the loop keeps running it: weak fairness of ScanStep,
\* which is enabled exactly while pc = "scanning" and always changes
\* opening or pc, written without ENABLED.
SpecScan ==
    Init /\ [][NextScan]_vars /\ ([]<>(pc # "scanning") \/ []<><<ScanStep>>_vars)

-----------------------------------------------------------------------------
(* Key agreement on its own: ecdh between two generated key pairs *)

MaxEcdhKeys == 4
EcdhScalars == {Scalar(i) : i \in 1..MaxEcdhKeys}

\* box: ecdh(key, peer), as Seal and Open call it.
BoxEcdh ==
    /\ pc = "idle"
    /\ \E d \in keyring, p \in keyring :
          With(box_ecdh(box_GenerateKey(d).key, box_GenerateKey(p).pub), LAMBDA s :
          Returns([NoCall EXCEPT !.pkg = "box", !.op = "ecdh", !.peers = <<p>>],
                  [NoOpening EXCEPT !.op = "ecdh", !.scalar = d],
                  [NoResult EXCEPT !.message = s.key, !.ok = s.ok]))

\* stoutbox.SharedKey(key, peer)
StoutboxSharedKey ==
    /\ pc = "idle"
    /\ \E d \in keyring, p \in keyring :
          With(stoutbox_SharedKey(stoutbox_GenerateKey(d).key, stoutbox_GenerateKey(p).pub),
               LAMBDA s :
          Returns([NoCall EXCEPT !.pkg = "stoutbox", !.op = "SharedKey", !.peers = <<p>>],
                  [NoOpening EXCEPT !.op = "SharedKey", !.scalar = d],
                  [NoResult EXCEPT !.message = s.key, !.ok = s.ok]))

NextEcdh ==
    \/ GenerateKey(EcdhScalars)
    \/ BoxEcdh
    \/ StoutboxSharedKey

SpecEcdh == Init /\ [][NextEcdh]_vars

-----------------------------------------------------------------------------
(* Signed boxes of the 50-year profile handed to the calls that open        *)
(* unsigned ones, after their type byte was rewritten or one bit flipped    *)

\* The first byte of the box is rewritten in transit.
Retype(types) ==
    /\ pc = "sealed"
    /\ sealOk
    /\ tamper = {}
    /\ \E t \in types \ {box[1]} :
          /\ box' = [box EXCEPT ![1] = t]
          /\ tamper' = {<<1, Xor(box[1], t)>>}
    /\ UNCHANGED <<pc, keyring, call, sealOk, opening, result, globals, reader, threads>>

NextRetype ==
    \/ GenerateKey(TamperScalars)
    \/ StoutboxSignAndSeal(TamperMessages, SignDraws(SharedNonces))
    \/ StoutboxSignAndSealShared(TamperMessages, AllPeers(keyring), SharedDraws(SharedNonces))
    \/ Retype({BoxUnsigned, BoxShared})
    \/ Mutate(1, LowBit)
    \/ StoutboxOpen
    \/ StoutboxOpenShared

SpecRetype == Init /\ [][NextRetype]_vars

-----------------------------------------------------------------------------
(* The buffers of a call of the 50-year profile.  A cell is one byte buffer *)
(* the call holds when it returns: an argument of the caller (kind          *)
(* "caller") or a buffer allocated inside the call.  `defer zero(x)` marks  *)
(* the cell x points to when the defer statement runs; the marked cells are *)
(* zeroed when the function returns.                                        *)

\* A zero that leaves the bytes as they are.
zeroSkipped(in) == in

\* zero(in): in[i] ^= in[i] for every byte; nothing for a nil slice.
zero(in) == IF in = NIL THEN NIL ELSE [i \in 1..Len(in) |-> Xor(in[i], in[i])]

Cell(name, kind, bytes) == [name |-> name, kind |-> kind, bytes |-> bytes, deferred |-> FALSE]

\* A defer that also reaches the buffers of the caller.
DeferZeroShared(cells, name) ==
    [i \in DOMAIN cells |->
        IF cells[i].name = name \/ cells[i].kind = "caller"
        THEN [cells[i] EXCEPT !.deferred = TRUE] ELSE cells[i]]

\* defer zero(x), x pointing to the cell called name ("" for a nil slice).
DeferZero(cells, name) ==
    [i \in DOMAIN cells |->
        IF cells[i].name = name THEN [cells[i] EXCEPT !.deferred = TRUE] ELSE cells[i]]

\* The function returns: its deferred calls run.
AtReturn(cells) ==
    [i \in DOMAIN cells |->
        [cells[i] EXCEPT !.bytes = IF cells[i].deferred THEN zero(@) ELSE @,
                         !.deferred = FALSE]]

\* sealBox: eph_key and skey are fresh buffers (elliptic.GenerateKey, the
\* append of ecdh), each deferred right after it was obtained.
mem_sealBox(message, peer, rnd) ==
    IF message = NIL THEN <<>>
    ELSE IF ~stoutbox_KeyIsSuitable(NIL, peer) THEN <<>>
    ELSE With(stoutbox_GenerateKey(rnd.eph), LAMBDA eph :
    IF ~eph.ok THEN <<>>
    ELSE With(DeferZero(<<Cell("eph_key", "ephemeral", eph.key)>>, "eph_key"), LAMBDA c :
         With(stoutbox_ecdh(eph.key, peer), LAMBDA skey :
         IF ~skey.ok THEN AtReturn(c)
         ELSE AtReturn(DeferZero(c \o <<Cell("skey", "ecdh", skey.key)>>, "skey")))))

mem_Seal(message, peer, rnd) ==
    <<Cell("message", "caller", message), Cell("peer", "caller", peer)>>
        \o mem_sealBox(message, peer, rnd)

\* SignAndSeal: signedMessage is the buffer of mpack, into which Write has
\* copied message and sig.
mem_SignAndSeal(message, key, public, peer, rnd) ==
    With(<<Cell("message", "caller", message), Cell("key", "caller", key),
           Cell("public", "caller", public), Cell("peer", "caller", peer)>>, LAMBDA args :
    With(stoutbox_Sign(message, key, public, rnd.k), LAMBDA sg :
    IF ~sg.ok \/ sg.signature = NIL THEN args
    ELSE With(SignedPayload(message, sg.signature), LAMBDA signedMessage :
    IF signedMessage = NIL THEN args
    ELSE AtReturn(DeferZero(args \o <<Cell("signedMessage", "signed", signedMessage)>>,
                            "signedMessage"))
             \o mem_sealBox(signedMessage, peer, rnd))))

\* openBox: shared is the key ecdh returned; no defer is made.
mem_openBox(b, key) ==
    IF b = NIL THEN <<>>
    ELSE IF ~stoutbox_KeyIsSuitable(key, NIL) THEN <<>>
    ELSE IF len(b) = 0 THEN <<>>
    ELSE With(br_Next(newbr(Slice(b, 1, len(b)))), LAMBDA eph_pub :
         With(stoutbox_ecdh(key, eph_pub.data), LAMBDA shared :
         IF ~shared.ok THEN <<>>
         ELSE AtReturn(<<Cell("shared", "ecdh", shared.key)>>)))

mem_Open(b, key) ==
    <<Cell("box", "caller", b), Cell("key", "caller", key)>> \o mem_openBox(b, key)

mem_OpenAndVerify(b, key, peer) ==
    <<Cell("box", "caller", b), Cell("key", "caller", key), Cell("peer", "caller", peer)>>
        \o mem_openBox(b, key)

mem_boxForPeer(e_priv, peer) ==
    With(stoutbox_ecdh(e_priv, peer), LAMBDA shared :
    IF ~shared.ok THEN <<>>
    ELSE AtReturn(DeferZero(<<Cell("shared", "ecdh", shared.key)>>, "shared")))

\* The calls of boxForPeer the loop of buildSharedBox makes, up to the first
\* that fails.
RECURSIVE mem_PackPeers(_, _, _, _, _)
mem_PackPeers(peers, i, e_priv, shared, ivs) ==
    IF i > Len(peers) THEN <<>>
    ELSE mem_boxForPeer(e_priv, peers[i])
             \o (IF boxForPeer(e_priv, peers[i], shared, ivs[i]).ok
                 THEN mem_PackPeers(peers, i + 1, e_priv, shared, ivs) ELSE <<>>)

\* buildSharedBox: e_priv is never deferred; the payload key shared is.
mem_buildSharedBox(message, peers, rnd) ==
    IF message = NIL THEN <<>>
    ELSE IF \E i \in 1..Len(peers) :
                peers[i] = NIL \/ ~stoutbox_KeyIsSuitable(NIL, peers[i]) THEN <<>>
    ELSE With(stoutbox_GenerateKey(rnd.eph), LAMBDA eph :
    IF ~eph.ok THEN <<>>
    ELSE With(<<Cell("e_priv", "ephemeral", eph.key)>>, LAMBDA c :
         With(strongbox_GenerateKey(rnd.key), LAMBDA shared :
    IF ~shared.ok THEN AtReturn(c)
    ELSE AtReturn(DeferZero(c \o <<Cell("shared", "payload", shared.key)>>, "shared"))
             \o mem_PackPeers(peers, 1, eph.key, shared.key, rnd.ivs))))

mem_SealShared(message, peers, rnd) ==
    <<Cell("message", "caller", message), Cell("peers", "caller", peers)>>
        \o mem_buildSharedBox(message, peers, rnd)

mem_SignAndSealShared(message, peers, sigkey, sigpub, rnd) ==
    With(<<Cell("message", "caller", message), Cell("peers", "caller", peers),
           Cell("sigkey", "caller", sigkey), Cell("sigpub", "caller", sigpub)>>, LAMBDA args :
    With(stoutbox_Sign(message, sigkey, sigpub, rnd.k), LAMBDA sg :
    IF ~sg.ok THEN args
    ELSE With(SignedPayload(message, sg.signature), LAMBDA signedMessage :
    IF signedMessage = NIL THEN args
    ELSE AtReturn(DeferZero(args \o <<Cell("signedMessage", "signed", signedMessage)>>,
                            "signedMessage"))
             \o mem_buildSharedBox(signedMessage, peers, rnd))))

\* The cells of the loop of unpackSharedBox from entry i on: skey, and the
\* payload key shared when the wrap of the opener's entry opens.
RECURSIVE mem_ScanPeers(_, _, _, _, _, _)
mem_ScanPeers(peerUnpack, i, peerCount, key, public, e_pub) ==
    IF i >= peerCount THEN <<>>
    ELSE With(br_Next(peerUnpack), LAMBDA peer :
    IF peer.data = NIL THEN <<>>
    ELSE With(br_Next(peer.r), LAMBDA sbox :
    IF sbox.data = NIL THEN <<>>
    ELSE IF peer.data # public
         THEN mem_ScanPeers(sbox.r, i + 1, peerCount, key, public, e_pub)
    ELSE With(stoutbox_ecdh(key, e_pub), LAMBDA skey :
    IF ~skey.ok THEN <<>>
    ELSE With(strongbox_Open(sbox.data, skey.key), LAMBDA shared :
    IF ~shared.ok THEN <<Cell("skey", "ecdh", skey.key)>>
    ELSE <<Cell("skey", "ecdh", skey.key), Cell("shared", "payload", shared.message)>>))))

\* unpackSharedBox: `defer zero(shared)` runs while shared is nil, so it marks
\* no cell; skey is never deferred.
mem_unpackSharedBox(b, key, public) ==
    IF b = NIL THEN <<>>
    ELSE IF ~stoutbox_KeyIsSuitable(key, public) THEN <<>>
    ELSE IF len(b) = 0 THEN <<>>
    ELSE With(br_Next(newbr(Slice(b, 1, len(b)))), LAMBDA e_pub :
    IF e_pub.data = NIL THEN <<>>
    ELSE With(br_Next(e_pub.r), LAMBDA packedPeers :
    IF packedPeers.data = NIL THEN <<>>
    ELSE IF len(packedPeers.data) = 0 THEN <<>>
    ELSE IF packedPeers.data[1] # peerList THEN <<>>
    ELSE With(br_NextU32(newbr(Slice(packedPeers.data, 1, len(packedPeers.data)))),
              LAMBDA peerCount :
    IF ~peerCount.ok THEN <<>>
    ELSE AtReturn(DeferZero(mem_ScanPeers(peerCount.r, 0, peerCount.n, key, public,
                                          e_pub.data), "")))))

mem_OpenShared(b, key, public) ==
    <<Cell("box", "caller", b), Cell("key", "caller", key), Cell("public", "caller", public)>>
        \o mem_unpackSharedBox(b, key, public)

mem_OpenSharedAndVerify(b, key, public, signer) ==
    <<Cell("box", "caller", b), Cell("key", "caller", key), Cell("public", "caller", public),
      Cell("signer", "caller", signer)>>
        \o mem_unpackSharedBox(b, key, public)

-----------------------------------------------------------------------------
(* Calls of the 50-year profile with the buffers they hold at their return. *)
(* The arguments of the call are kept in call.args, the box and the cells   *)
(* in the result.                                                           *)

\* The low bit of byte p of b is flipped (p = 0: b as it is).
FlipAt(b, p) == IF p = 0 THEN b ELSE [b EXCEPT ![p] = Xor(@, 1)]

\* The last byte of the X coordinate of the ephemeral key of a box.
EphXEnd == 1 + u32Len + 1 + CoordLen(stoutbox_publicKeySize)

\* Where a single-recipient box is altered: nowhere, in the ephemeral key
\* (ecdh fails), in the tag (strongbox.Open fails).
BoxFlips(b) == {0, EphXEnd, Len(b)}

\* Where a shared box whose payload has n bytes is altered: nowhere, in the
\* ephemeral key, in the last key wrap, in the tag of the payload.
SharedFlips(b, n) == {0, EphXEnd, Len(b) - u32Len - n - strongbox_Overhead, Len(b)}

MemCall(op, args) == [args |-> args] @@ [NoCall EXCEPT !.pkg = "stoutbox", !.op = op]
MemResult(r, b, cells) ==
    [message |-> r.message, ok |-> r.ok, panic |-> r.panic, box |-> b, mem |-> cells]

MemSeal(msgs, args, rnds) ==
    /\ pc = "idle"
    /\ \E m \in msgs, p \in keyring, a \in args, r \in rnds :
          With(PubArg(stoutbox_GenerateKey(p).pub, a), LAMBDA peer :
          With(stoutbox_Seal(m, peer, r), LAMBDA s :
          Returns([MemCall("Seal", <<m, peer>>) EXCEPT !.rnd = r],
                  [NoOpening EXCEPT !.op = "Seal"],
                  MemResult([NoResult EXCEPT !.ok = s.ok], s.box, mem_Seal(m, peer, r)))))

MemSignAndSeal(msgs, args, rnds) ==
    /\ pc = "idle"
    /\ \E m \in msgs, p \in keyring, sg \in keyring, a \in args, r \in rnds :
          With(PubArg(stoutbox_GenerateKey(p).pub, a), LAMBDA peer :
          With(stoutbox_GenerateKey(sg), LAMBDA k :
          With(stoutbox_SignAndSeal(m, k.key, k.pub, peer, r), LAMBDA s :
          Returns([MemCall("SignAndSeal", <<m, k.key, k.pub, peer>>) EXCEPT !.rnd = r],
                  [NoOpening EXCEPT !.op = "SignAndSeal"],
                  MemResult([NoResult EXCEPT !.ok = s.ok], s.box,
                            mem_SignAndSeal(m, k.key, k.pub, peer, r))))))

MemOpen(msgs, rnds) ==
    /\ pc = "idle"
    /\ \E m \in msgs, p \in keyring, d \in keyring, r \in rnds :
          With(stoutbox_Seal(m, stoutbox_GenerateKey(p).pub, r).box, LAMBDA sealed :
          \E f \in BoxFlips(sealed) :
          With(FlipAt(sealed, f), LAMBDA b :
          With(stoutbox_GenerateKey(d).key, LAMBDA key :
          Returns(MemCall("Open", <<b, key>>),
                  [NoOpening EXCEPT !.op = "Open", !.scalar = d],
                  MemResult(stoutbox_Open(b, key), b, mem_Open(b, key))))))

MemOpenAndVerify(msgs, rnds) ==
    /\ pc = "idle"
    /\ \E m \in msgs, p \in keyring, d \in keyring, sg \in keyring, r \in rnds :
          With(stoutbox_GenerateKey(sg), LAMBDA k :
          With(stoutbox_SignAndSeal(m, k.key, k.pub, stoutbox_GenerateKey(p).pub, r).box,
               LAMBDA sealed :
          \E f \in BoxFlips(sealed) :
          With(FlipAt(sealed, f), LAMBDA b :
          With(stoutbox_GenerateKey(d).key, LAMBDA key :
          Returns(MemCall("OpenAndVerify", <<b, key, k.pub>>),
                  [NoOpening EXCEPT !.op = "OpenAndVerify", !.scalar = d, !.signer = sg],
                  MemResult(stoutbox_OpenAndVerify(b, key, k.pub), b,
                            mem_OpenAndVerify(b, key, k.pub)))))))

MemSealShared(msgs, lists, rnds) ==
    /\ pc = "idle"
    /\ \E m \in msgs, ps \in lists, r \in rnds :
          With(stoutbox_SealShared(m, PubKeys(ps), r), LAMBDA s :
          Returns([MemCall("SealShared", <<m, PubKeys(ps)>>) EXCEPT !.rnd = r],
                  [NoOpening EXCEPT !.op = "SealShared"],
                  MemResult([NoResult EXCEPT !.ok = s.ok], s.box,
                            mem_SealShared(m, PubKeys(ps), r))))

MemSignAndSealShared(msgs, lists, rnds) ==
    /\ pc = "idle"
    /\ \E m \in msgs, ps \in lists, sg \in keyring, r \in rnds :
          With(stoutbox_GenerateKey(sg), LAMBDA k :
          With(stoutbox_SignAndSealShared(m, PubKeys(ps), k.key, k.pub, r), LAMBDA s :
          Returns([MemCall("SignAndSealShared", <<m, PubKeys(ps), k.key, k.pub>>)
                      EXCEPT !.rnd = r],
                  [NoOpening EXCEPT !.op = "SignAndSealShared"],
                  MemResult([NoResult EXCEPT !.ok = s.ok], s.box,
                            mem_SignAndSealShared(m, PubKeys(ps), k.key, k.pub, r)))))

MemOpenShared(msgs, lists, rnds) ==
    /\ pc = "idle"
    /\ \E m \in msgs, ps \in lists, d \in keyring, r \in rnds :
          With(stoutbox_SealShared(m, PubKeys(ps), r).box, LAMBDA sealed :
          \E f \in SharedFlips(sealed, len(m)) :
          With(FlipAt(sealed, f), LAMBDA b :
          With(stoutbox_GenerateKey(d), LAMBDA k :
          Returns(MemCall("OpenShared", <<b, k.key, k.pub>>),
                  [NoOpening EXCEPT !.op = "OpenShared", !.scalar = d],
                  MemResult(stoutbox_OpenShared(b, k.key, k.pub), b,
                            mem_OpenShared(b, k.key, k.pub))))))

MemOpenSharedAndVerify(msgs, lists, rnds) ==
    /\ pc = "idle"
    /\ \E m \in msgs, ps \in lists, d \in keyring, sg \in keyring, r \in rnds :
          With(stoutbox_GenerateKey(sg), LAMBDA sk :
          With(stoutbox_SignAndSealShared(m, PubKeys(ps), sk.key, sk.pub, r).box,
               LAMBDA sealed :
          \E f \in SharedFlips(sealed,
                               len(SignedPayload(m, stoutbox_Sign(m, sk.key, sk.pub,
                                                                  r.k).signature))) :
          With(FlipAt(sealed, f), LAMBDA b :
          With(stoutbox_GenerateKey(d), LAMBDA k :
          Returns(MemCall("OpenSharedAndVerify", <<b, k.key, k.pub, sk.pub>>),
                  [NoOpening EXCEPT !.op = "OpenSharedAndVerify", !.scalar = d,
                                    !.signer = sg],
                  MemResult(stoutbox_OpenSharedAndVerify(b, k.key, k.pub, sk.pub), b,
                            mem_OpenSharedAndVerify(b, k.key, k.pub, sk.pub)))))))

\* Sign and Verify make no defer: they hold the buffers of the caller only.
MemSign(msgs, nonces) ==
    /\ pc = "idle"
    /\ \E m \in msgs, sg \in keyring, n \in nonces :
          With(stoutbox_GenerateKey(sg), LAMBDA k :
          With(stoutbox_Sign(m, k.key, k.pub, n), LAMBDA s :
          Returns([MemCall("Sign", <<m, k.key, k.pub>>) EXCEPT !.rnd = [NoRnd EXCEPT !.k = n]],
                  [NoOpening EXCEPT !.op = "Sign"],
                  MemResult([NoResult EXCEPT !.ok = s.ok], s.signature,
                            AtReturn(<<Cell("message", "caller", m),
                                       Cell("key", "caller", k.key),
                                       Cell("pub", "caller", k.pub)>>)))))

MemVerify(msgs, nonces) ==
    /\ pc = "idle"
    /\ \E m \in msgs, sg \in keyring, v \in keyring, n \in nonces :
          With(stoutbox_GenerateKey(sg), LAMBDA k :
          With(stoutbox_Sign(m, k.key, k.pub, n).signature, LAMBDA sig :
          With(stoutbox_GenerateKey(v).pub, LAMBDA signer :
          Returns(MemCall("Verify", <<m, sig, signer>>),
                  [NoOpening EXCEPT !.op = "Verify", !.signer = v],
                  MemResult([NoResult EXCEPT !.ok = stoutbox_Verify(m, sig, signer)], NIL,
                            AtReturn(<<Cell("message", "caller", m),
                                       Cell("signature", "caller", sig),
                                       Cell("signer", "caller", signer)>>))))))

\* strongbox.Seal: encrypt copies its nonce into the output and clears the
\* nonce byte by byte; the key is sliced and read, the message is read.
MemStrongboxSeal(msgs, fills, ivs) ==
    /\ pc = "idle"
    /\ \E m \in msgs, f \in fills, iv \in ivs :
          With(SymKey(f[1], f[2], strongbox_cryptKeySize, strongbox_tagKeySize), LAMBDA key :
          With(strongbox_Seal(m, key, iv), LAMBDA s :
          Returns([[args |-> <<m, key>>] @@ [NoCall EXCEPT !.pkg = "strongbox", !.op = "Seal"]
                      EXCEPT !.rnd = [NoRnd EXCEPT !.iv = iv]],
                  [NoOpening EXCEPT !.op = "Seal"],
                  MemResult([NoResult EXCEPT !.ok = s.ok], s.box,
                            <<Cell("message", "caller", m), Cell("key", "caller", key)>>
                                \o (IF iv = NIL THEN <<>>
                                    ELSE <<Cell("iv", "nonce", zero(iv))>>)))))

\* strongbox.Open: checkTag and decrypt slice the box and read it.
MemStrongboxOpen(msgs, fills, ivs) ==
    /\ pc = "idle"
    /\ \E m \in msgs, f \in fills, iv \in ivs :
          With(SymKey(f[1], f[2], strongbox_cryptKeySize, strongbox_tagKeySize), LAMBDA key :
          \E b \in {With(strongbox_Seal(m, key, iv).box,
                          LAMBDA sealed : FlipAt(sealed, q)) : q \in {0, 1}} :
             With(strongbox_Open(b, key), LAMBDA o :
             Returns([[args |-> <<b, key>>] @@ [NoCall EXCEPT !.pkg = "strongbox", !.op = "Open"]
                         EXCEPT !.rnd = [NoRnd EXCEPT !.iv = iv]],
                     [NoOpening EXCEPT !.op = "Open"],
                     MemResult([NoResult EXCEPT !.message = o.message, !.ok = o.ok], NIL,
                               <<Cell("box", "caller", b), Cell("key", "caller", key)>>))))

\* Every call with working and failing draws, valid and off-curve peer keys,
\* intact and altered boxes.
NextMem ==
    \/ MemStrongboxSeal(TamperMessages, TamperFills, {NIL, Iv(0)})
    \/ MemStrongboxOpen(TamperMessages, TamperFills, {Iv(0)})
    \/ MemSign(TamperMessages, SharedNonces \cup {0})
    \/ MemVerify(TamperMessages, SharedNonces)
    \/ GenerateKey(SharedScalars)
    \/ MemSeal(TamperMessages, {"valid", "curve"}, Failing(SealDraws))
    \/ MemSignAndSeal(TamperMessages, {"valid", "curve"}, Failing(SignDraws(SharedNonces)))
    \/ MemOpen(TamperMessages, SealDraws)
    \/ MemOpenAndVerify(TamperMessages, SignDraws(SharedNonces))
    \/ MemSealShared(TamperMessages, AllPeers(keyring), FailingShared(SharedDraws({0})))
    \/ MemSignAndSealShared(TamperMessages, AllPeers(keyring),
                            FailingShared(SharedDraws(SharedNonces)))
    \/ MemOpenShared(TamperMessages, AllPeers(keyring), SharedDraws({0}))
    \/ MemOpenSharedAndVerify(TamperMessages, AllPeers(keyring), SharedDraws(SharedNonces))

SpecMem == Init /\ [][NextMem]_vars

-----------------------------------------------------------------------------
(* Concurrent invocations.  Each thread runs one call at a time; a call     *)
(* keeps its inputs, its draws and its intermediate values in locals, and  *)
(* shares with the other calls the package-level variables, which it reads,*)
(* and the random source, whose Read is atomic.  Between the reads of one  *)
(* call the other threads may run.                                         *)

\* The reads the random source serves in one run.
MaxReads == 4

\* The reads of the random source a call makes, in order, each through the
\* PRNG variable of the package that makes it.
DrawsOf(p, op) ==
    IF p = "strongbox" /\ op = "Seal" THEN <<[pkg |-> "strongbox", kind |-> "iv"]>>
    ELSE IF p = "stoutbox" /\ op = "Seal"
         THEN <<[pkg |-> "stoutbox", kind |-> "eph"], [pkg |-> "strongbox", kind |-> "iv"]>>
    ELSE IF p = "stoutbox" /\ op = "SignAndSeal"
         THEN <<[pkg |-> "stoutbox", kind |-> "k"], [pkg |-> "stoutbox", kind |-> "eph"],
                [pkg |-> "strongbox", kind |-> "iv"]>>
    ELSE <<>>

\* What the n-th read of rand.Reader delivers, as a signing nonce, as an
\* ephemeral scalar and as a nonce of the symmetric layer.
Served(kind, n) ==
    IF kind = "k" THEN <<71, 5>>[(n % 2) + 1]
    ELSE IF kind = "eph" THEN Scalar(n + 3)
    ELSE Iv(n % 4)

\* A read through the variable prng: rand.Reader serves its next value, any
\* other reader is not the source the caller installed and serves nothing.
ReadFull(prng, kind, n) ==
    IF prng = "rand.Reader" THEN Served(kind, n)
    ELSE IF kind = "iv" THEN NIL ELSE 0

\* The draws of a call as the sealing operators take them.
DrawsAsRnd(th) ==
    With(DrawsOf(th.pkg, th.op), LAMBDA kinds :
    [k   |-> IF \E i \in DOMAIN kinds : kinds[i].kind = "k"
             THEN th.draws[CHOOSE i \in DOMAIN kinds : kinds[i].kind = "k"] ELSE 0,
     eph |-> IF \E i \in DOMAIN kinds : kinds[i].kind = "eph"
             THEN th.draws[CHOOSE i \in DOMAIN kinds : kinds[i].kind = "eph"] ELSE 0,
     iv  |-> IF \E i \in DOMAIN kinds : kinds[i].kind = "iv"
             THEN th.draws[CHOOSE i \in DOMAIN kinds : kinds[i].kind = "iv"] ELSE NIL])

\* The call of th run on its own, with its inputs and its draws.
Alone(th) ==
    With(DrawsAsRnd(th), LAMBDA rnd :
    IF th.pkg = "strongbox" /\ th.op = "Seal"
    THEN With(strongbox_Seal(th.args[1], th.args[2], rnd.iv), LAMBDA s :
         [out |-> s.box, ok |-> s.ok])
    ELSE IF th.pkg = "strongbox" /\ th.op = "Open"
    THEN With(strongbox_Open(th.args[1], th.args[2]), LAMBDA o :
         [out |-> o.message, ok |-> o.ok])
    ELSE IF th.op = "Seal"
    THEN With(stoutbox_Seal(th.args[1], th.args[2], rnd), LAMBDA s :
         [out |-> s.box, ok |-> s.ok])
    ELSE IF th.op = "Open"
    THEN With(stoutbox_Open(th.args[1], th.args[2]), LAMBDA o :
         [out |-> o.message, ok |-> o.ok])
    ELSE IF th.op = "SignAndSeal"
    THEN With(stoutbox_SignAndSeal(th.args[1], th.args[2], th.args[3], th.args[4], rnd),
              LAMBDA s : [out |-> s.box, ok |-> s.ok])
    ELSE With(stoutbox_OpenAndVerify(th.args[1], th.args[2], th.args[3]), LAMBDA o :
         [out |-> o.message, ok |-> o.ok]))

\* The boxes a thread opens were sealed beforehand; Open is also given a box
\* with one bit of its last byte flipped.
ThreadSymKey == SymKey(1, 3, strongbox_cryptKeySize, strongbox_tagKeySize)
ThreadBoxes(sealed) == {sealed, FlipAt(sealed, Len(sealed))}

\* The calls a thread may start, given the key pairs generated so far.
ThreadCalls(msgs, ks) ==
    {[pkg |-> "strongbox", op |-> "Seal", args |-> <<m, ThreadSymKey>>] : m \in msgs}
    \cup {[pkg |-> "strongbox", op |-> "Open",
           args |-> <<strongbox_Seal(m, ThreadSymKey, Iv(0)).box, ThreadSymKey>>] : m \in msgs}
    \cup {[pkg |-> "stoutbox", op |-> "Seal", args |-> <<m, stoutbox_GenerateKey(d).pub>>] :
             m \in msgs, d \in ks}
    \cup {[pkg |-> "stoutbox", op |-> "Open", args |-> <<b, stoutbox_GenerateKey(d).key>>] :
             d \in ks,
             b \in UNION {ThreadBoxes(stoutbox_Seal(m, stoutbox_GenerateKey(e).pub,
                                                    Rnd(0, 29)).box) : m \in msgs, e \in ks}}
    \cup {[pkg |-> "stoutbox", op |-> "SignAndSeal",
           args |-> <<m, stoutbox_GenerateKey(d).key, stoutbox_GenerateKey(d).pub,
                      stoutbox_GenerateKey(d).pub>>] : m \in msgs, d \in ks}
    \cup {[pkg |-> "stoutbox", op |-> "OpenAndVerify",
           args |-> <<b, stoutbox_GenerateKey(d).key, stoutbox_GenerateKey(d).pub>>] :
             d \in ks,
             b \in {stoutbox_SignAndSeal(m, stoutbox_GenerateKey(e).key,
                                         stoutbox_GenerateKey(e).pub,
                                         stoutbox_GenerateKey(e).pub, Rnd(71, 29)).box :
                        m \in msgs, e \in ks}}

\* A draw that reassigns the PRNG variable it read through.
ThreadDrawReassigns ==
    \E t \in Threads :
       /\ threads[t].pc = "running"
       /\ Len(threads[t].draws) < Len(DrawsOf(threads[t].pkg, threads[t].op))
       /\ reader < MaxReads
       /\ With(DrawsOf(threads[t].pkg, threads[t].op)[Len(threads[t].draws) + 1], LAMBDA d :
             /\ threads' = [threads EXCEPT
                   ![t].draws = Append(@, ReadFull(globals[d.pkg].PRNG, d.kind, reader)),
                   ![t].reads = Append(@, reader)]
             /\ globals' = [globals EXCEPT ![d.pkg].PRNG = "spent"])
       /\ reader' = reader + 1
       /\ UNCHANGED <<pc, keyring, call, box, sealOk, tamper, opening, result>>

\* A thread enters an operation with its arguments.
ThreadCall(msgs) ==
    \E t \in Threads :
       /\ threads[t].pc = "idle"
       /\ \E c \in ThreadCalls(msgs, keyring) :
             threads' = [threads EXCEPT
                ![t] = [pc |-> "running", pkg |-> c.pkg, op |-> c.op, args |-> c.args,
                        draws |-> <<>>, reads |-> <<>>,
                        result |-> [out |-> NIL, ok |-> FALSE]]]
       /\ UNCHANGED <<pc, keyring, call, box, sealOk, tamper, opening, result, globals, reader>>

\* The call's next read of the random source: io.ReadFull, elliptic.GenerateKey
\* and ecdsa.Sign read the PRNG variable and fill a buffer of their own.
ThreadDraw ==
    \E t \in Threads :
       /\ threads[t].pc = "running"
       /\ Len(threads[t].draws) < Len(DrawsOf(threads[t].pkg, threads[t].op))
       /\ reader < MaxReads
       /\ With(DrawsOf(threads[t].pkg, threads[t].op)[Len(threads[t].draws) + 1], LAMBDA d :
             threads' = [threads EXCEPT
                ![t].draws = Append(@, ReadFull(globals[d.pkg].PRNG, d.kind, reader)),
                ![t].reads = Append(@, reader)])
       /\ reader' = reader + 1
       /\ UNCHANGED <<pc, keyring, call, box, sealOk, tamper, opening, result, globals>>

\* The call computes from its locals and returns; curve, Overhead and
\* SignedOverhead are read and must be what the operators were written for.
ThreadReturn ==
    \E t \in Threads :
       /\ threads[t].pc = "running"
       /\ Len(threads[t].draws) = Len(DrawsOf(threads[t].pkg, threads[t].op))
       /\ globals.stoutbox.curve = PackageVars.stoutbox.curve
       /\ globals.stoutbox.Overhead = PackageVars.stoutbox.Overhead
       /\ threads' = [threads EXCEPT ![t].pc = "returned", ![t].result = Alone(threads[t])]
       /\ UNCHANGED <<pc, keyring, call, box, sealOk, tamper, opening, result, globals, reader>>

\* The caller takes the result; the thread is free for its next call.
ThreadDone ==
    \E t \in Threads :
       /\ threads[t].pc = "returned"
       /\ threads' = [threads EXCEPT ![t] = NoInvocation]
       /\ UNCHANGED <<pc, keyring, call, box, sealOk, tamper, opening, result, globals, reader>>

NextThreads ==
    \/ GenerateKey({Scalar(1)})
    \/ ThreadCall({Msg(1)})
    \/ ThreadDraw
    \/ ThreadReturn
    \/ ThreadDone

SpecThreads == Init /\ [][NextThreads]_vars

-----------------------------------------------------------------------------
(* The claims *)

\* The bytes of a message: a nil message has none.
Bytes(s) == IF s = NIL THEN <<>> ELSE s

Symmetric == {"secretbox", "strongbox"}
PublicKey == {"box", "stoutbox"}

\* The box reached the opening call as it was sealed.
Untampered == tamper = {}

\* The opening call is the one that matches the sealing call.
Matching ==
    \/ call.op = "Seal" /\ opening.op = "Open"
    \/ call.op = "SignAndSeal" /\ opening.op = "OpenAndVerify"
    \/ call.op = "SealShared" /\ opening.op = "OpenShared"
    \/ call.op = "SignAndSealShared" /\ opening.op = "OpenSharedAndVerify"

Returned == result.ok /\ Bytes(result.message) = Bytes(call.message)

\* The authentication half of a symmetric key.
TagKey(key) ==
    IF len(key) = secretbox_KeySize THEN Slice(key, secretbox_cryptKeySize, len(key))
    ELSE Slice(key, strongbox_cryptKeySize, len(key))

\* C1: in secretbox and strongbox, a message of any length, the empty one
\* included, sealed under a key and opened under the same key comes back
\* with ok = true.
C1_SymRoundTrip ==
    (pc = "opened" /\ call.pkg \in Symmetric /\ sealOk /\ Untampered
        /\ opening.key = call.key)
    => Returned

\* C1, the failing case: an empty message is sealed with ok = true into a box
\* of Overhead bytes, which Open under the same key rejects.
C1_EmptyRejected ==
    /\ pc = "opened" /\ call.pkg = "strongbox" /\ sealOk /\ Untampered
    /\ opening.key = call.key /\ call.message = <<>>
    /\ len(box) = strongbox_Overhead
    /\ ~result.ok

\* C2: in box and stoutbox, a message of any length sealed to a generated
\* public key is returned with ok = true by Open under its private key.
C2_PublicRoundTrip ==
    (pc = "opened" /\ call.pkg \in PublicKey /\ call.op = "Seal" /\ opening.op = "Open"
        /\ call.message # NIL /\ Untampered /\ opening.scalar = call.peers[1])
    => Returned

\* C2, the failing case: Seal of an empty message succeeds in both profiles
\* and Open under the recipient's key rejects the box.
C2_EmptyRejected ==
    /\ pc = "opened" /\ call.pkg = "stoutbox" /\ call.op = "Seal" /\ opening.op = "Open"
    /\ call.message = <<>> /\ sealOk /\ Untampered /\ opening.scalar = call.peers[1]
    /\ ~result.ok

\* C3: in both profiles OpenAndVerify of a SignAndSeal box under the
\* recipient's key returns the message with ok = true for the signer's public
\* key, and ok = false for any other public key.
C3_SignedRoundTrip ==
    (pc = "opened" /\ call.pkg \in PublicKey /\ call.op = "SignAndSeal"
        /\ opening.op = "OpenAndVerify" /\ call.message # NIL /\ Untampered
        /\ opening.scalar = call.peers[1])
    => /\ opening.signer = call.signer => Returned
       /\ opening.signer # call.signer => ~result.ok

\* C3, the failing case: the 20-year SignAndSeal of an empty message succeeds
\* and OpenAndVerify with the right keys returns ok = false.
C3_EmptyNotVerified ==
    /\ pc = "opened" /\ call.pkg = "box" /\ call.op = "SignAndSeal"
    /\ opening.op = "OpenAndVerify" /\ call.message = <<>> /\ sealOk /\ Untampered
    /\ opening.scalar = call.peers[1] /\ opening.signer = call.signer
    /\ ~result.ok /\ ~result.panic

InPeers(d) == \E i \in 1..Len(call.peers) : call.peers[i] = d

\* C4: every listed recipient of a shared box opens it with ok = true and
\* the message, a key pair that is not listed gets ok = false; the same for
\* signed shared boxes verified against the signer's public key.
C4_SharedRoundTrip ==
    (pc = "opened" /\ call.pkg = "stoutbox" /\ Matching /\ call.message # NIL /\ Untampered
        /\ call.op \in {"SealShared", "SignAndSealShared"}
        /\ (call.op = "SignAndSealShared" => opening.signer = call.signer))
    => /\ InPeers(opening.scalar) => Returned
       /\ ~InPeers(opening.scalar) => ~result.ok

\* C4, the failing case: SealShared of an empty message succeeds and a listed
\* recipient's OpenShared returns ok = false.
C4_EmptyRejected ==
    /\ pc = "opened" /\ call.op = "SealShared" /\ opening.op = "OpenShared"
    /\ call.message = <<>> /\ sealOk /\ Untampered /\ Len(call.peers) = 2
    /\ InPeers(opening.scalar)
    /\ ~result.ok

C6_MutationRejects ==
    (pc = "opened" /\ call.pkg \in Symmetric /\ sealOk /\ ~Untampered
        /\ opening.key = call.key)
    => ~result.ok

\* C6: a box with a flipped bit in its IV and another one elsewhere was
\* opened under the sealing key and rejected.
C6_Witness ==
    /\ pc = "opened" /\ call.pkg = "secretbox" /\ sealOk /\ opening.key = call.key
    /\ Cardinality(tamper) >= 2
    /\ \E f \in tamper : f[1] <= AesBlockSize
    /\ \E f \in tamper : f[1] > AesBlockSize
    /\ ~result.ok

\* C7: a single-recipient box of either profile with one bit flipped, at any
\* position, is rejected by Open under the recipient's key, and a SignAndSeal
\* box with one bit flipped is rejected by OpenAndVerify.
C7_BitFlipRejects ==
    (pc = "opened" /\ call.pkg \in PublicKey /\ sealOk /\ Cardinality(tamper) = 1
        /\ call.op \in {"Seal", "SignAndSeal"} /\ Matching
        /\ opening.scalar = call.peers[1])
    => ~result.ok

\* C7: a 50-year SignAndSeal box whose type byte had a bit flipped was
\* rejected by OpenAndVerify with the recipient's and the signer's keys.
C7_Witness ==
    /\ pc = "opened" /\ call.pkg = "stoutbox" /\ call.op = "SignAndSeal"
    /\ opening.op = "OpenAndVerify" /\ sealOk
    /\ opening.scalar = call.peers[1] /\ opening.signer = call.signer
    /\ tamper = {<<1, 1>>}
    /\ ~result.ok

\* C8: a shared box (signed or not) that differs from the sealed one in at
\* least one bit, wherever the bit lies, is rejected when a listed recipient
\* opens it.
C8_SharedMutationRejects ==
    (pc = "opened" /\ call.pkg = "stoutbox" /\ sealOk /\ ~Untampered
        /\ call.op \in {"SealShared", "SignAndSealShared"} /\ Matching
        /\ (call.op = "SignAndSealShared" => opening.signer = call.signer)
        /\ InPeers(opening.scalar))
    => ~result.ok

\* C8, the failing case: a box sealed for two recipients had a bit flipped
\* and a listed recipient's OpenShared returned the message with ok = true.
C8_AlteredAccepted ==
    /\ pc = "opened" /\ call.op = "SealShared" /\ opening.op = "OpenShared"
    /\ sealOk /\ Cardinality(tamper) = 1 /\ Len(call.peers) = 2
    /\ InPeers(opening.scalar)
    /\ Returned

C10_SignedLength ==
    (pc # "idle" /\ sealOk /\ call.pkg = "stoutbox" /\ call.op = "SignAndSeal")
    => /\ stoutbox_SignedOverhead = 133 + 64 + 140
       /\ len(box) >= len(call.message) + stoutbox_SignedOverhead

\* C10, the failing case: the signing nonce gave a one-byte r and the box is
\* shorter than len(m) + SignedOverhead.
C10_ShortSignature ==
    /\ pc = "sealed" /\ sealOk /\ call.pkg = "stoutbox" /\ call.op = "SignAndSeal"
    /\ call.rnd.k = 5
    /\ len(box) < len(call.message) + stoutbox_SignedOverhead

\* A key argument is supplied when it is not nil, and fits when it has n bytes.
Supplied(key) == key # NIL
Fits(key, n) == key # NIL /\ Len(key) = n

\* C11: KeyIsSuitable is true exactly when a key is supplied and every
\* supplied key has the profile's length: private 32 and public 65 bytes in
\* box, 66 and 133 in stoutbox.
C11_KeyIsSuitable ==
    (pc = "opened" /\ call.op = "KeyIsSuitable")
    => LET priv == IF call.pkg = "box" THEN 32 ELSE 66
           pub == IF call.pkg = "box" THEN 65 ELSE 133
       IN  result.ok <=>
              /\ Supplied(opening.key) \/ Supplied(opening.pub)
              /\ Supplied(opening.key) => Fits(opening.key, priv)
              /\ Supplied(opening.pub) => Fits(opening.pub, pub)

\* C11: a zero-length private key that is not nil was passed to stoutbox with
\* a public key of 133 bytes, and was found unsuitable.
C11_Witness ==
    /\ pc = "opened" /\ call.pkg = "stoutbox" /\ call.op = "KeyIsSuitable"
    /\ opening.key = <<>> /\ Fits(opening.pub, 133)
    /\ ~result.ok

OpeningOps == {"Open", "OpenAndVerify", "OpenShared", "OpenSharedAndVerify"}

\* C12: an opening call of any package that returns ok = false returns no
\* message bytes with it.
C12_FailureReturnsNothing ==
    (pc = "opened" /\ opening.op \in OpeningOps /\ ~result.ok /\ ~result.panic)
    => Bytes(result.message) = <<>>

\* C12, the failing case: the 20-year OpenAndVerify, given another public key
\* than the signer's, returned ok = false together with the plaintext.
C12_PlaintextWithFailure ==
    /\ pc = "opened" /\ call.pkg = "box" /\ call.op = "SignAndSeal" /\ sealOk
    /\ opening.op = "OpenAndVerify" /\ opening.scalar = call.peers[1]
    /\ opening.signer # call.signer
    /\ ~result.ok /\ ~result.panic
    /\ len(call.message) > 0 /\ result.message = call.message

\* C13: every call returns: none ends in a run-time panic.
C13_NoPanic == pc = "opened" => ~result.panic

\* C13, the failing case: the 20-year OpenAndVerify was given a box that Seal
\* made of a message shorter than a signature; Open succeeded and the slice
\* smessage[:len(smessage)-sigSize] was out of range.
C13_ShortPayloadPanics ==
    /\ pc = "opened" /\ call.pkg = "box" /\ call.op = "Seal" /\ sealOk /\ Untampered
    /\ opening.op = "OpenAndVerify" /\ opening.scalar = call.peers[1]
    /\ len(call.message) \in 1..(box_sigSize - 1)
    /\ result.panic

\* A draw that the call makes from the random source failed.
SigningOps == {"Sign", "SignKey", "SignAndSeal", "SignAndSealShared"}
SealingOps == {"Seal", "SignAndSeal"}
SharedOps == {"SealShared", "SignAndSealShared"}
DrawFailed ==
    \/ call.op \in SigningOps /\ call.rnd.k = 0
    \/ call.op \in {"GenerateKey"} \cup SealingOps \cup SharedOps /\ call.rnd.eph = 0
    \/ call.op \in SealingOps \cup SharedOps /\ call.rnd.iv = NIL
    \/ call.op \in SharedOps
         /\ \/ call.rnd.key = NIL
            \/ \E i \in 1..Len(call.peers) : call.rnd.ivs[i] = NIL

\* C14: a call of box or stoutbox of which one draw from the random source
\* failed returns ok = false and neither a box, a key nor a signature.
C14_RandomFailureFails ==
    (pc = "sealed" /\ call.pkg \in PublicKey /\ DrawFailed)
    => ~sealOk /\ box = NIL

\* C14, the failing case: the signing nonce of the 20-year SignAndSeal could
\* not be drawn, the draws of Seal succeeded, and the call returned ok = true
\* with a box.
C14_UnsignedBoxReturned ==
    /\ pc = "sealed" /\ call.pkg = "box" /\ call.op = "SignAndSeal"
    /\ call.rnd.k = 0 /\ call.rnd.eph # 0 /\ call.rnd.iv # NIL
    /\ len(call.message) > 0
    /\ sealOk /\ len(box) = box_Overhead


\* The type byte each opening call of stoutbox requires.
RequiredType(op) ==
    CASE op = "Open" -> BoxUnsigned
      [] op = "OpenAndVerify" -> BoxSigned
      [] op = "OpenShared" -> BoxShared
      [] op = "OpenSharedAndVerify" -> BoxSharedSigned

\* C15: in stoutbox, Open, OpenAndVerify, OpenShared and OpenSharedAndVerify
\* return ok=false for every box whose type byte is not BoxUnsigned,
\* BoxSigned, BoxShared and BoxSharedSigned respectively.
C15_TypeEnforced ==
    (/\ pc = "opened"
     /\ call.pkg = "stoutbox"
     /\ box # NIL /\ len(box) > 0
     /\ box[1] # RequiredType(opening.op))
        => ~result.ok

\* A signed shared box that lists the opener is given to OpenShared: the
\* key wrap and the payload open, and only the type byte stands in the way.
C15_Witness ==
    /\ pc = "opened"
    /\ call.op = "SignAndSealShared"
    /\ sealOk
    /\ opening.op = "OpenShared"
    /\ InPeers(opening.scalar)
    /\ box[1] = BoxSharedSigned
    /\ ~result.ok


\* The public key given to the call decodes to a point of its profile's curve.
Decodes(pkg, pub) ==
    Unmarshal(pub, IF pkg = "box" THEN box_publicKeySize ELSE stoutbox_publicKeySize)
        # NoPoint

\* C16: every operation of box and stoutbox that is given a public key
\* returns failure whenever a public key passed to it does not decode to a
\* point of the profile's curve.
C16_UndecodableKeyFails ==
    (pc = "opened" /\ ~Decodes(call.pkg, opening.pub)) => ~result.ok

\* SignKey is given a peer key of the right length that is not on the curve
\* and returns a signature of it with ok = true.
C16_OffCurveKeySigned ==
    /\ pc = "opened"
    /\ opening.op = "SignKey"
    /\ len(opening.pub) = stoutbox_publicKeySize
    /\ ~Decodes("stoutbox", opening.pub)
    /\ result.ok
    /\ result.message # NIL


VerifyingOps == {"OpenAndVerify", "OpenSharedAndVerify"}

\* The payload the opener's key decrypts from the box, and the signature the
\* payload carries: its last sigSize bytes (box), its second frame (stoutbox).
OpenedPayload ==
    IF call.pkg = "box" THEN box_Open(box, box_GenerateKey(opening.scalar).key).message
    ELSE IF opening.op = "OpenAndVerify"
         THEN stoutbox_openBox(box, stoutbox_GenerateKey(opening.scalar).key).message
    ELSE unpackSharedBox(box, stoutbox_GenerateKey(opening.scalar).key,
                         stoutbox_GenerateKey(opening.scalar).pub).message

CarriedSignature ==
    IF call.pkg = "box"
    THEN Slice(OpenedPayload, len(OpenedPayload) - box_sigSize, len(OpenedPayload))
    ELSE br_Next(br_Next(newbr(OpenedPayload)).r).data

\* The ECDSA verification of sig over the profile's digest of message under
\* the public key of the generated pair d.
SignatureVerifies(message, sig, d) ==
    IF call.pkg = "box"
    THEN LET rs == box_unmarshalECDSASignature(sig)
         IN  /\ ~rs.nil
             /\ ecdsa_Verify(Unmarshal(box_GenerateKey(d).pub, box_publicKeySize),
                             sha256(message), rs.r, rs.s)
    ELSE LET rs == unmarshalSignature(sig)
         IN  /\ ~rs.nil
             /\ ecdsa_Verify(Unmarshal(stoutbox_GenerateKey(d).pub, stoutbox_publicKeySize),
                             sha384(message), rs.r, rs.s)

\* C17: OpenAndVerify (both profiles) and OpenSharedAndVerify return ok=true
\* only if the signature carried in the opened payload verifies under the
\* stated signer's public key over the digest of the returned message.
C17_OkOnlyIfSignatureVerifies ==
    (pc = "opened" /\ opening.op \in VerifyingOps /\ result.ok)
        => /\ result.message # NIL
           /\ SignatureVerifies(result.message, CarriedSignature, opening.signer)

\* A signed box is opened by its recipient, verified against another key
\* pair than the signer's, and refused.
C17_Witness ==
    /\ pc = "opened"
    /\ opening.op \in VerifyingOps
    /\ tamper = {}
    /\ InPeers(opening.scalar)
    /\ opening.signer # call.signer
    /\ ~result.ok
    /\ ~SignatureVerifies(call.message, CarriedSignature, opening.signer)
    /\ SignatureVerifies(call.message, CarriedSignature, call.signer)


\* The attested key and the signer's key of the SignKey call, as passed to
\* VerifySignedKey.
AttestedKey == stoutbox_GenerateKey(call.peers[1]).pub
SignerKey == stoutbox_GenerateKey(call.signer).pub

\* C18: VerifySignedKey(P, sP, SignKey(sK, sP, P)) is true; it is false when
\* the signer's public key is a different valid key or is bit-mutated, and
\* when the attested key P is bit-mutated.
C18_KeySigningRoundTrip ==
    (pc = "opened" /\ opening.op = "VerifySignedKey" /\ sealOk)
        => /\ (opening.pub = AttestedKey /\ opening.key = SignerKey) => result.ok
           /\ (opening.pub = AttestedKey /\ opening.key # SignerKey) => ~result.ok
           /\ (/\ opening.key = SignerKey
               /\ opening.scalar = call.peers[1]
               /\ opening.pub # AttestedKey) => ~result.ok

\* The signature of a key is refused for the same key with one bit flipped.
C18_Witness ==
    /\ pc = "opened"
    /\ opening.op = "VerifySignedKey"
    /\ sealOk
    /\ opening.key = SignerKey
    /\ opening.scalar = call.peers[1]
    /\ opening.pub # AttestedKey
    /\ ~result.ok


\* The type byte of the box each sealing call of stoutbox is to emit.
EmittedType(op) ==
    CASE op = "Seal" -> 1
      [] op = "SignAndSeal" -> 2
      [] op = "SealShared" -> 11
      [] op = "SignAndSealShared" -> 12

\* C19: the first byte of every stoutbox box is its type, 1 from Seal, 2
\* from SignAndSeal, 11 from SealShared and 12 from SignAndSealShared, and
\* BoxIsSigned is true exactly for the boxes of SignAndSeal and
\* SignAndSealShared.
C19_TypeByteAndBoxIsSigned ==
    (pc # "idle" /\ call.pkg = "stoutbox" /\ sealOk)
        => /\ box # NIL /\ len(box) > 0
           /\ box[1] = EmittedType(call.op)
           /\ opening.op = "BoxIsSigned"
                 => /\ ~result.panic
                    /\ result.ok = (call.op \in {"SignAndSeal", "SignAndSealShared"})

\* BoxIsSigned answers true for a signed shared box.
C19_Witness ==
    /\ pc = "opened"
    /\ call.op = "SignAndSealShared"
    /\ sealOk
    /\ box[1] = BoxSharedSigned
    /\ opening.op = "BoxIsSigned"
    /\ result.ok


\* Frame(b) of the wire format: the length of b on four bytes, big-endian,
\* then b.
Frame(b) == U32BE(Len(b)) \o b

\* The parts of the shared box of the SealShared call: the ephemeral pair,
\* the payload key, recipient i's key and the wrap of the payload key for it.
SharedEph == stoutbox_GenerateKey(call.rnd.eph)
SharedPayloadKey == strongbox_GenerateKey(call.rnd.key).key
PeerKey(i) == stoutbox_GenerateKey(call.peers[i]).pub
PeerWrap(i) ==
    strongbox_Seal(SharedPayloadKey, stoutbox_ecdh(SharedEph.key, PeerKey(i)).key,
                   call.rnd.ivs[i]).box

\* Frame(pub_i), Frame(wrap_i) for the recipients i .. N in input order.
RECURSIVE PeerEntries(_)
PeerEntries(i) ==
    IF i > Len(call.peers) THEN <<>>
    ELSE Frame(PeerKey(i)) \o Frame(PeerWrap(i)) \o PeerEntries(i + 1)

\* typeByte, Frame(ephPub), Frame(peerList), Frame(strongbox(payload)) for
\* the peer list that carries its recipient count as the bytes count.
SharedLayout(count) ==
    <<11>> \o Frame(SharedEph.pub)
           \o Frame(<<21>> \o count \o PeerEntries(1))
           \o Frame(strongbox_Seal(call.message, SharedPayloadKey, call.rnd.iv).box)

SealSharedReturned == pc # "idle" /\ call.op = "SealShared" /\ sealOk

\* C20 as stated: in the box of SealShared the tag byte 21 of the peer list
\* is immediately followed by the 4-byte big-endian recipient count N.
C20_CountFollowsTag ==
    SealSharedReturned => box = SharedLayout(U32BE(Len(call.peers)))

\* C20: the box of SealShared is typeByte, Frame(ephPub), Frame(peerList),
\* Frame(strongbox(payload)); the peer list is the tag byte 21, then the
\* recipient count N in a frame of its own (the length 4 on four bytes, then
\* N on four bytes, big-endian), then Frame(pub_i), Frame(wrap_i) for each
\* recipient in input order.
C20_CountIsFramed ==
    SealSharedReturned => box = SharedLayout(Frame(U32BE(Len(call.peers))))

\* A shared box for two different recipients, the larger key listed first.
C20_Witness ==
    /\ SealSharedReturned
    /\ Len(call.peers) = 2
    /\ call.peers[1] > call.peers[2]
    /\ box = SharedLayout(<<0, 0, 0, 4, 0, 0, 0, 2>>)


\* The three frames after the type byte of the box in transit: the ephemeral
\* key, the peer list and the sealed payload (NIL where a frame is missing).
BoxFrames ==
    LET f1 == br_Next(newbr(Slice(box, 1, len(box))))
        f2 == br_Next(f1.r)
        f3 == br_Next(f2.r)
    IN  [e_pub |-> f1.data, plist |-> f2.data, sbox |-> f3.data]

\* The entries of the peer list in list order, as many as the list declares
\* and its bytes hold: <<key, wrap>> pairs.
RECURSIVE ListEntries(_, _)
ListEntries(r, n) ==
    IF n = 0 THEN <<>>
    ELSE LET peer == br_Next(r)
             wrap == br_Next(peer.r)
         IN  IF peer.data = NIL \/ wrap.data = NIL THEN <<>>
             ELSE <<<<peer.data, wrap.data>>>> \o ListEntries(wrap.r, n - 1)

PeerListEntries ==
    LET plist == BoxFrames.plist
        count == br_NextU32(newbr(Slice(plist, 1, len(plist))))
    IN  IF plist = NIL \/ len(plist) = 0 \/ ~count.ok THEN <<>>
        ELSE ListEntries(count.r, count.n)

\* The entries whose key is the opener's public key, by position.
OpenerKey == stoutbox_GenerateKey(opening.scalar)
OwnEntries == {i \in 1..Len(PeerListEntries) : PeerListEntries[i][1] = OpenerKey.pub}

\* strongbox.Open of the wrap of entry i under the opener's ECDH key, and of
\* the payload under the key that wrap holds.
WrapOpen(i) ==
    strongbox_Open(PeerListEntries[i][2],
                   stoutbox_ecdh(OpenerKey.key, BoxFrames.e_pub).key)
PayloadOpen(i) == strongbox_Open(BoxFrames.sbox, WrapOpen(i).message)

SharedOpening == pc = "opened" /\ opening.op \in {"OpenShared", "OpenSharedAndVerify"}

\* C22: OpenShared and OpenSharedAndVerify return ok=false whenever the
\* strongbox.Open of the opener's key wrap fails or the strongbox.Open of the
\* payload under the recovered key fails.
C22_FailedOpenFails ==
    (SharedOpening /\ box # NIL /\ OwnEntries # {})
        => LET first == CHOOSE i \in OwnEntries : \A j \in OwnEntries : i <= j
           IN  (~WrapOpen(first).ok \/ ~PayloadOpen(first).ok) => ~result.ok

\* The key wrap opens, the payload was altered and does not, and the call
\* fails.
C22_Witness ==
    /\ SharedOpening
    /\ tamper # {}
    /\ OwnEntries # {}
    /\ \E i \in OwnEntries : WrapOpen(i).ok /\ ~PayloadOpen(i).ok
    /\ ~result.ok


FirstOwnEntry == CHOOSE i \in OwnEntries : \A j \in OwnEntries : i <= j

\* C27: OpenShared uses the first entry of the peer list whose key equals the
\* opener's public key: what it returns is what that entry's wrap gives, and
\* it fails when that wrap does not open, whatever a later entry with the
\* same key holds.
C27_FirstMatchUsed ==
    (SharedOpening /\ opening.op = "OpenShared" /\ box # NIL /\ OwnEntries # {})
        => /\ ~WrapOpen(FirstOwnEntry).ok => ~result.ok
           /\ result.ok => result.message = PayloadOpen(FirstOwnEntry).message

\* The opener is listed twice; the first of its wraps was altered and does
\* not open, the second does and would give the payload; the call fails.
C27_Witness ==
    /\ SharedOpening
    /\ opening.op = "OpenShared"
    /\ Cardinality(OwnEntries) = 2
    /\ ~WrapOpen(FirstOwnEntry).ok
    /\ \E i \in OwnEntries : WrapOpen(i).ok /\ PayloadOpen(i).ok
    /\ ~result.ok

-----------------------------------------------------------------------------
\* The bytes a written item holds between its length prefix and the next item.
ItemBytes(it) == IF it.u32 THEN U32BE(it.n) ELSE Bytes(it.data)

\* The reads made so far have each consumed one whole written item: a Next
\* always does, a NextU32 does on an item written by WriteUint32.
ReadsAligned ==
    /\ tamper = {}
    /\ Len(opening.reads) <= Len(call.items)
    /\ \A j \in 1..(Len(opening.reads) - 1) :
          opening.reads[j] = "Next" \/ call.items[j].u32

LastItem == call.items[Len(opening.reads)]

\* The length the reader is about to read is beyond the bytes after it.
LengthBeyondRest(r) ==
    /\ ~r.err
    /\ Len(r.buf) >= 4
    /\ U32Value(r.buf) > Len(r.buf) - 4

\* C26: the k-th Next on the bytes written by bw returns the k-th item
\* written, NextU32 on an item written by WriteUint32(n) returns (n, true),
\* and Next returns nil when the length it reads exceeds the bytes left.
C26_FramingRoundTrip ==
    (pc = "opened" /\ opening.op \in {"Next", "NextU32"})
        => /\ (ReadsAligned /\ opening.op = "Next")
                  => result.message = ItemBytes(LastItem)
           /\ (ReadsAligned /\ opening.op = "NextU32" /\ LastItem.u32)
                  => result.ok /\ result.n = LastItem.n
           /\ (opening.op = "Next" /\ LengthBeyondRest(opening.before))
                  => result.message = NIL

C26_Witness ==
    /\ pc = "opened"
    /\ opening.reads = <<"NextU32", "Next">>
    /\ ReadsAligned
    /\ call.items[1].u32 /\ call.items[1].n = MaxInt
    /\ ~LastItem.u32 /\ Len(ItemBytes(LastItem)) > 0
    /\ result.message = LastItem.data

\* A Next is made on bytes whose next length is beyond them.
C26_BeyondReached ==
    pc = "opened" /\ opening.op = "Next" /\ LengthBeyondRest(opening.before)

-----------------------------------------------------------------------------
\* The unread bytes of the peer list.
PeerBytesLeft == Len(opening.peerUnpack.buf)

\* The step-by-step OpenShared returns what stoutbox_OpenShared returns.
ScanAgrees ==
    (pc = "opened" /\ opening.op = "OpenShared")
        => result = stoutbox_OpenShared(box, stoutbox_GenerateKey(opening.scalar).key,
                                        stoutbox_GenerateKey(opening.scalar).pub)

\* C29: a pass of the scan of unpackSharedBox that does not return leaves at
\* least 8 bytes fewer of the peer list unread, a pass made with no byte
\* left returns failure, and every scan comes to its return.
C29_ScanTerminates ==
    /\ [][pc = "scanning"
            => /\ pc' = "scanning" => PeerBytesLeft' + 8 <= PeerBytesLeft
               /\ PeerBytesLeft = 0 => pc' = "opened" /\ ~result'.ok]_vars
    /\ (pc = "scanning" ~> pc = "opened")

\* The scan has passed an entry of a list whose declared count is beyond 2^31.
C29_Witness ==
    /\ pc = "scanning"
    /\ opening.i >= 1
    /\ opening.peerCount = MaxInt
    /\ PeerBytesLeft = 0

-----------------------------------------------------------------------------
\* The X coordinate the two keys of the call share, on curveByteLen bytes.
SharedX(n) == Enc(XCoord((call.peers[1] * opening.scalar) % GroupOrder), n)

\* The key the profile derives from that fixed-length X.
DerivedKey ==
    IF call.pkg = "box"
    THEN With(SharedX(CoordLen(box_publicKeySize)), LAMBDA x :
         Cat(Slice(x, 0, secretbox_cryptKeySize),
             sha256(Slice(x, secretbox_cryptKeySize, len(x)))))
    ELSE With(SharedX(CoordLen(stoutbox_publicKeySize)), LAMBDA x :
         Cat(Slice(x, 0, strongbox_cryptKeySize),
             sha384(Slice(x, strongbox_cryptKeySize, len(x)))))

EcdhReturned == pc = "opened" /\ opening.op \in {"ecdh", "SharedKey"}

\* C28: ecdh and SharedKey return a key of KeySize bytes, the first
\* cryptKeySize bytes of X on curveByteLen bytes followed by the hash of the
\* other bytes of it.
C28_KeyFromPaddedX ==
    EcdhReturned
        => /\ result.ok
           /\ len(result.message)
                  = (IF call.pkg = "box" THEN secretbox_KeySize ELSE strongbox_KeySize)
           /\ result.message = DerivedKey

\* SharedKey returned a key of KeySize bytes that is not the one derived from
\* the fixed-length X, whose top byte is zero.
C28_Witness ==
    /\ EcdhReturned
    /\ call.pkg = "stoutbox"
    /\ result.ok
    /\ SharedX(CoordLen(stoutbox_publicKeySize))[1] = 0
    /\ len(result.message) = strongbox_KeySize
    /\ result.message # DerivedKey

-----------------------------------------------------------------------------
\* The payload the signing call sealed: the framed message and signature.
SealedSignedPayload ==
    SignedPayload(call.message,
                  stoutbox_Sign(call.message, stoutbox_GenerateKey(call.signer).key,
                                stoutbox_GenerateKey(call.signer).pub,
                                call.rnd.k).signature)

UnsignedOpening ==
    /\ pc = "opened"
    /\ call.op \in {"SignAndSeal", "SignAndSealShared"}
    /\ sealOk
    /\ opening.op = (IF call.op = "SignAndSeal" THEN "Open" ELSE "OpenShared")

\* C25: whatever was done to a box of SignAndSeal (SignAndSealShared), Open
\* (OpenShared) does not return the payload sealed in it with ok = true.
C25_SignedPayloadNotOpened ==
    UnsignedOpening => ~(result.ok /\ result.message = SealedSignedPayload)

\* Open returned the signed payload of a box whose type byte alone was
\* rewritten to BoxUnsigned.
C25_Witness ==
    /\ UnsignedOpening
    /\ call.op = "SignAndSeal"
    /\ tamper = {<<1, Xor(BoxSigned, BoxUnsigned)>>}
    /\ result.ok
    /\ result.message = SealedSignedPayload

\* OpenShared did the same on a box of SignAndSealShared rewritten to BoxShared.
C25_SharedReached ==
    /\ UnsignedOpening
    /\ call.op = "SignAndSealShared"
    /\ tamper = {<<1, Xor(BoxSharedSigned, BoxShared)>>}
    /\ result.ok
    /\ result.message = SealedSignedPayload

-----------------------------------------------------------------------------
MemReturned(ops) == pc = "opened" /\ call.pkg = "stoutbox" /\ opening.op \in ops

AllZero(b) == \A i \in 1..Len(b) : b[i] = 0

\* The cells of the given kinds the call holds at its return.
CellsOf(kinds) == {i \in DOMAIN result.mem : result.mem[i].kind \in kinds}

\* s occurs in b as a run of consecutive bytes.
Occurs(s, b) == \E i \in 0..(len(b) - Len(s)) : SubSeq(b, i + 1, i + Len(s)) = s

\* The ephemeral key pair of the call.
EphKey == stoutbox_GenerateKey(call.rnd.eph)

\* C23: when Seal or SignAndSeal returns after its ephemeral key was
\* generated, the buffer of the ephemeral scalar is all zero, and the scalar
\* is no part of the box returned.
C23_EphemeralZeroed ==
    (MemReturned({"Seal", "SignAndSeal"}) /\ CellsOf({"ephemeral"}) # {})
        => /\ \A i \in CellsOf({"ephemeral"}) :
                 /\ Len(result.mem[i].bytes) = stoutbox_privateKeySize
                 /\ AllZero(result.mem[i].bytes)
           /\ ~Occurs(EphKey.key, result.box)

\* Seal has returned a box, the buffer of its ephemeral scalar zeroed.
C23_Witness ==
    /\ MemReturned({"Seal"})
    /\ result.ok
    /\ Cardinality(CellsOf({"ephemeral"})) = 1
    /\ EphKey.ok /\ ~AllZero(EphKey.key)
    /\ \A i \in CellsOf({"ephemeral"}) : AllZero(result.mem[i].bytes)

-----------------------------------------------------------------------------
SealingAndOpeningOps ==
    {"Seal", "Open", "SignAndSeal", "OpenAndVerify", "SealShared", "SignAndSealShared",
     "OpenShared", "OpenSharedAndVerify"}

\* C24: when a sealing or opening call of the 50-year profile returns, every
\* buffer of an ephemeral scalar, of a key derived by ECDH and of a payload
\* key it holds is all zero.
C24_SecretsZeroed ==
    MemReturned(SealingAndOpeningOps)
        => \A i \in CellsOf({"ephemeral", "ecdh", "payload"}) : AllZero(result.mem[i].bytes)

\* OpenShared has opened a box and returns with the key derived by ECDH and
\* the payload key still in their buffers.
C24_Witness ==
    /\ MemReturned({"OpenShared"})
    /\ result.ok
    /\ \E i \in CellsOf({"ecdh"}) : ~AllZero(result.mem[i].bytes)
    /\ \E i \in CellsOf({"payload"}) : result.mem[i].bytes = PayloadKey

\* The calls that leave a secret in a buffer, by the kind of the secret.
C24_Leaks ==
    MemReturned(SealingAndOpeningOps)
        => /\ opening.op \in {"Seal", "SignAndSeal"}
                 => \A i \in CellsOf({"ephemeral", "ecdh", "payload"}) :
                       AllZero(result.mem[i].bytes)
           /\ opening.op \in {"SealShared", "SignAndSealShared"}
                 => /\ \A i \in CellsOf({"ecdh", "payload"}) : AllZero(result.mem[i].bytes)
                    /\ \A i \in CellsOf({"ephemeral"}) : ~AllZero(result.mem[i].bytes)
           /\ opening.op \in {"Open", "OpenAndVerify", "OpenShared", "OpenSharedAndVerify"}
                 => \A i \in CellsOf({"ecdh", "payload"}) : ~AllZero(result.mem[i].bytes)

-----------------------------------------------------------------------------
=============================================================================
